---- MODULE Spec2Model ----
(***************************************************************************)
(* A model of ocelog's buffered logger (src/ocelog/src/ocelog/core.py):    *)
(* the buffer and its lock, log(), flush(), close(), the background        *)
(* flusher thread and its lazy restart, and the writer call.               *)
(*                                                                         *)
(* Every application thread, every flusher thread and the signal handler   *)
(* is an "actor" with a program counter.  One action is one atomic step of *)
(* the Python code between two points where another thread may run.        *)
(***************************************************************************)
EXTENDS Integers, Sequences, FiniteSets, TLC

\* ---------------------------------------------------------------- bounds
\* Records a run may append (log() calls that reach the buffer).
MaxRecords == 2
\* Flusher threads a run may create (Thread objects made by _start_flusher).
MaxFlushers == 3

\* ---------------------------------------------------------------- actors
None == <<"none", 0>>
\* The application threads: the main thread and one worker thread.
Main == <<"t", 1>>
Worker == <<"t", 2>>
Threads == {Main, Worker}
Flushers == {<<"f", i>> : i \in 1..MaxFlushers}
\* The signal handler runs on the main thread, on top of whatever frame the main
\* thread was executing: it is an actor of its own that suspends the main thread.
Sig == <<"sig", 0>>
Actors == Threads \cup Flushers \cup {Sig}

VARIABLES
    cfg,        \* constructor arguments: max_buffer, flush_interval, mode,
                \* db_writer, db_error_mode, db_retries, db_on_error
    lg,         \* the Ocelogger object's fields
    os,         \* the process: os.getpid(), its exit code; the buffer and the main
                \* thread's position when a signal came
    set_events, \* the threading.Event objects (by id) that are set
    n_events,   \* Event objects created so far (ids 0..n_events)
    n_flushers, \* Thread objects created so far
    pc,         \* each actor's position in the code
    op,         \* the outermost call each actor is executing
    batch,      \* flush()'s local variable `batch`, per actor
    wev,        \* the Event a flusher is waiting on in _flush_loop
    written,    \* the writer.write calls so far, in call order
    n_appended, \* records appended so far; record k is the k-th append
    result,     \* how each actor's last finished call ended
    hist,       \* per actor: counters read at the start of a call and at its swap
    dbw,        \* per actor: its last _DBWriter.write call (locals and what it did)
    ctx,        \* the ContextVar _trace_id as each thread sees it
    kwargs,     \* the keyword arguments of each thread's current log call
    recs,       \* the record dict built for each append (record k at index k)
    lazy,       \* a LazyLogger object's fields and each thread's access to it
    req         \* per thread: the web request it is serving inside a middleware

vars == <<cfg, lg, os, set_events, n_events, n_flushers, pc, op, batch, wev,
          written, n_appended, result, hist, dbw, ctx, kwargs, recs, lazy, req>>

\* ------------------------------------------------------------ helpers
Range(s) == {s[i] : i \in 1..Len(s)}

\* The records of all batches handed to the writer so far.
WrittenRecords == UNION {Range(written[i]) : i \in 1..Len(written)}

\* threading.Thread.is_alive()
IsAlive(f) == f \in Flushers /\ pc[f] \notin {"unborn", "dead"}

\* What close() reads and does, kept while the call runs: the number of records
\* appended when it was called, its writer calls, the flusher it joined.
NoHist == [call_mark |-> 0, writes |-> 0, joined |-> None, timed_out |-> FALSE]

\* An interval test that takes every interval other than 0 for a period.
IntervalOnNonZero == cfg.flush_interval # 0

\* `if self._flush_interval and self._flush_interval > 0`
IntervalOn == cfg.flush_interval > 0

\* How a call ends for its caller: pc back to idle, the outcome recorded.
Return(a, res) ==
    /\ pc' = [pc EXCEPT ![a] = "idle"]
    /\ result' = [result EXCEPT ![a] = [op |-> op[a], res |-> res]]
    /\ op' = [op EXCEPT ![a] = "none"]
    /\ hist' = [hist EXCEPT ![a] = NoHist]

\* An end of flush() where an error raised in a tick ends _flush_loop, and with
\* it the flusher thread.
FlushDoneTickDies(a, res) ==
    IF a \in Flushers
    THEN /\ pc' = [pc EXCEPT ![a] = IF res = "raise" THEN "dead" ELSE "loop"]
         /\ result' = [result EXCEPT ![a] = [op |-> "tick", res |-> res]]
         /\ UNCHANGED <<op, hist>>
    ELSE IF a = Sig
    THEN /\ pc' = [pc EXCEPT ![a] = IF op[a] = "cleanup" THEN "sys_exit" ELSE "finalize"]
         /\ result' = [result EXCEPT ![a] =
                          [op |-> op[a], res |-> IF res = "raise" THEN "swallowed" ELSE "ok"]]
         /\ UNCHANGED <<op, hist>>
    ELSE Return(a, res)

\* An end of flush() where _cleanup lets the error of close() or flush() out.
FlushDoneCleanupRaises(a, res) ==
    IF a \in Flushers
    THEN /\ pc' = [pc EXCEPT ![a] = "loop"]
         /\ result' = [result EXCEPT ![a] = [op |-> "tick", res |-> res]]
         /\ UNCHANGED <<op, hist>>
    ELSE IF a = Sig
    THEN /\ pc' = [pc EXCEPT ![a] = IF op[a] = "cleanup" THEN "sys_exit" ELSE "finalize"]
         /\ result' = [result EXCEPT ![a] = [op |-> op[a], res |-> res]]
         /\ UNCHANGED <<op, hist>>
    ELSE Return(a, res)

\* What follows the end of flush() for its caller: _flush_loop swallows the
\* error and loops (core.py 164-167; how the tick ended is kept in result
\* until the loop waits again);
\* log(), flush() and close() hand the outcome to their caller.
FlushDone(a, res) ==
    IF a \in Flushers
    THEN /\ pc' = [pc EXCEPT ![a] = "loop"]
         /\ result' = [result EXCEPT ![a] = [op |-> "tick", res |-> res]]
         /\ UNCHANGED <<op, hist>>
    ELSE IF a = Sig
    THEN \* _cleanup swallows the error of close() or flush() and returns
         \* (lifecycle.py 10-16)
         /\ pc' = [pc EXCEPT ![a] = IF op[a] = "cleanup" THEN "sys_exit" ELSE "finalize"]
         /\ result' = [result EXCEPT ![a] =
                          [op |-> op[a], res |-> IF res = "raise" THEN "swallowed" ELSE "ok"]]
         /\ UNCHANGED <<op, hist>>
    ELSE Return(a, res)

\* The outcomes of one _FileWriter.write(batch) call as flush() sees them: it
\* returns, or raises on an I/O error (open/write, core.py 195-196).
WriteOutcomes == {"ok", "raise"}

\* _DBWriter.write before its first statement: the locals `attempts` and
\* `last_exc` (core.py 212-213), and what the call has done so far: the
\* invocations of the batch function (the argument of each), how many of them
\* failed, the invocations of on_error, the applications of the terminal
\* policy, the writes to stderr, the exception raised to the caller.  The k-th
\* invocation that fails raises exception k; 0 is no exception.
NoWrite ==
    [records |-> <<>>, attempts |-> 0, last_exc |-> 0, calls |-> <<>>, fails |-> 0,
     on_error |-> <<>>, policy |-> 0, stderr |-> 0, raised |-> 0, done |-> FALSE]

\* ------------------------------------------------------------ log()
\* log() calls that have started and not yet appended.
PendingAppends == Cardinality({u \in Threads : op[u] = "log" /\ pc[u] \in
                    {"ens_flusher", "start_event", "start_thread", "log_acquire", "log_cs"}})

\* ------------------------------------------------------------ records
\* Python's None among the values the application passes and the ContextVar holds.
PyNone == "None"

\* The keyword arguments of `logger.info("m")`: none.
NoKwargs == [k \in {} |-> PyNone]

\* The values passed as `exc`: None or an exception object.
ExcValues == {PyNone, "ValueError('boom')"}

\* The keyword arguments of a log call: any of `exc` and one other key, `user`.
Kwargs ==
    {kw \in UNION {[D -> ExcValues \cup {"u1"}] : D \in SUBSET {"exc", "user"}} :
        /\ "exc" \in DOMAIN kw => kw["exc"] \in ExcValues
        /\ "user" \in DOMAIN kw => kw["user"] = "u1"}

\* A truth test that only asks for a value other than None.
TruthyNotNone(v) == v # PyNone

\* `if trace_id:` (core.py 92): None and the empty string are false.
Truthy(v) == v \notin {PyNone, ""}

\* "".join(traceback.format_exception(type(exc), exc, exc.__traceback__))
\* (core.py 96-102): the text of the trace, which ends with the error.
FormatException(exc) == <<"Traceback (most recent call last):", exc>>

\* `if "exc" in kwargs and kwargs["exc"] is not None` (core.py 95)
HasExc(kw) == "exc" \in DOMAIN kw /\ kw["exc"] # PyNone

\* The record dict _log builds (core.py 83-106) from the keyword arguments and
\* the value of get_trace_id(): the fixed fields (the clock's "ts" is left
\* out), trace_id if the ambient value is true, exception if an exception was
\* passed (`exc` is then popped), extra if keyword arguments remain.
BuildRecord(kw, trace_id) ==
    LET fixed == [level |-> "INFO", message |-> "m", logger |-> "ocelog", pid |-> lg.pid]
        traced == IF Truthy(trace_id) THEN fixed @@ ("trace_id" :> trace_id) ELSE fixed
        with_exc == IF HasExc(kw)
                    THEN traced @@ ("exception" :> FormatException(kw["exc"]))
                    ELSE traced
        rest == IF HasExc(kw) THEN [k \in DOMAIN kw \ {"exc"} |-> kw[k]] ELSE kw
    IN IF DOMAIN rest # {} THEN with_exc @@ ("extra" :> rest) ELSE with_exc

\* The value set_trace_id(trace_id) stores (context.py 12-14): the argument,
\* or for None a fresh uuid4 hex string.
NewTraceId(trace_id) == IF trace_id = PyNone THEN "9f2c4e0ab1d34c6f" ELSE trace_id

\* set_trace_id(trace_id) called by thread t outside the logger (context.py
\* 10-15).
SetTraceId(t, trace_id) ==
    /\ pc[t] = "idle"
    /\ ctx' = [ctx EXCEPT ![t] = NewTraceId(trace_id)]
    /\ ctx'[t] # ctx[t]
    /\ UNCHANGED <<req, lazy, dbw, cfg, lg, os, set_events, n_events, n_flushers, pc, op, batch, wev,
                   written, n_appended, result, hist, kwargs, recs>>

\* _log entry with keyword arguments kw and the first two tests of
\* _ensure_flusher (core.py 80-82, 147-150).
CallLogArgs(t, kw) ==
    /\ pc[t] = "idle"
    /\ n_appended + PendingAppends < MaxRecords
    /\ op' = [op EXCEPT ![t] = "log"]
    /\ kwargs' = [kwargs EXCEPT ![t] = kw]
    /\ pc' = [pc EXCEPT ![t] = IF lg.closed \/ ~IntervalOn THEN "log_acquire" ELSE "ens_flusher"]
    /\ UNCHANGED <<req, lazy, ctx, recs, dbw, cfg, lg, os, set_events, n_events, n_flushers, batch,
                   wev, written, n_appended, result, hist>>

\* A log call with any keyword arguments: `logger.info("m", **kw)`.
CallLogKw(t) == \E kw \in Kwargs : CallLogArgs(t, kw)

\* A log call without keyword arguments: `logger.info("m")`.
CallLog(t) ==
    /\ pc[t] = "idle"
    /\ n_appended + PendingAppends < MaxRecords
    /\ op' = [op EXCEPT ![t] = "log"]
    /\ kwargs' = [kwargs EXCEPT ![t] = NoKwargs]
    /\ pc' = [pc EXCEPT ![t] = IF lg.closed \/ ~IntervalOn THEN "log_acquire" ELSE "ens_flusher"]
    /\ UNCHANGED <<req, lazy, ctx, recs,
                   dbw, cfg, lg, os, set_events, n_events, n_flushers, batch, wev,
                   written, n_appended, result, hist>>

\* _ensure_flusher's pid update and its test of the flusher (core.py 151-159).
EnsureFlusher(t) ==
    /\ pc[t] = "ens_flusher"
    /\ lg' = [lg EXCEPT !.pid = os.pid]
    /\ pc' = [pc EXCEPT ![t] =
                IF lg.flusher = None \/ ~IsAlive(lg.flusher) \/ lg.flusher_pid # os.pid
                THEN "start_event" ELSE "log_acquire"]
    /\ UNCHANGED <<req, lazy, ctx, kwargs, recs,
                   dbw, cfg, os, set_events, n_events, n_flushers, op, batch, wev,
                   written, n_appended, result, hist>>

\* _start_flusher, first statement: a fresh stop Event (core.py 171).
StartFlusherEvent(t) ==
    /\ pc[t] = "start_event"
    /\ n_events' = n_events + 1
    /\ lg' = [lg EXCEPT !.stop_event = n_events + 1]
    /\ pc' = [pc EXCEPT ![t] = "start_thread"]
    /\ UNCHANGED <<req, lazy, ctx, kwargs, recs,
                   dbw, cfg, os, set_events, n_flushers, op, batch, wev,
                   written, n_appended, result, hist>>

\* _start_flusher, the rest: the Thread, its pid, start() (core.py 172-176).
StartFlusherThread(t) ==
    /\ pc[t] = "start_thread"
    /\ n_flushers < MaxFlushers
    /\ LET f == <<"f", n_flushers + 1>> IN
        /\ n_flushers' = n_flushers + 1
        /\ lg' = [lg EXCEPT !.flusher = f, !.flusher_pid = os.pid]
        /\ pc' = [pc EXCEPT ![f] = "loop", ![t] = "log_acquire"]
        /\ op' = [op EXCEPT ![f] = "tick"]
    /\ UNCHANGED <<req, lazy, ctx, kwargs, recs,
                   dbw, cfg, os, set_events, n_events, batch, wev,
                   written, n_appended, result, hist>>

\* `with self._lock:` in _log (core.py 108).
LogAcquire(t) ==
    /\ pc[t] = "log_acquire"
    /\ lg.lock = None
    /\ lg' = [lg EXCEPT !.lock = t]
    /\ pc' = [pc EXCEPT ![t] = "log_cs"]
    /\ UNCHANGED <<req, lazy, ctx, kwargs, recs,
                   dbw, cfg, os, set_events, n_events, n_flushers, op, batch, wev,
                   written, n_appended, result, hist>>

\* A size test that forgets `self._max_buffer and`: a threshold of 0 always flushes.
ShouldFlushIgnoresZero(buf) == Len(buf) >= cfg.max_buffer

\* A size test that waits for one record more than the threshold.
ShouldFlushAbove(buf) == cfg.max_buffer # 0 /\ Len(buf) > cfg.max_buffer

\* `should_flush = self._max_buffer and len(self._buffer) >= self._max_buffer`
\* (a max_buffer of None is falsy like 0).
ShouldFlush(buf) == cfg.max_buffer # 0 /\ Len(buf) >= cfg.max_buffer

\* The critical section of _log and what follows it (core.py 109-113): append,
\* compute should_flush, release the lock, then flush() or return.  The record
\* appended is the one built just before the lock (core.py 83-106) from the
\* call's keyword arguments and the thread's ambient trace id, which nothing
\* changes while the thread is inside log(); recs keeps both with the record.
LogAppend(t) ==
    /\ pc[t] = "log_cs"
    /\ LET buf == Append(lg.buffer, n_appended + 1) IN
        /\ lg' = [lg EXCEPT !.buffer = buf, !.lock = None]
        /\ n_appended' = n_appended + 1
        /\ recs' = Append(recs, [kwargs |-> kwargs[t], trace_id |-> ctx[t],
                                 record |-> BuildRecord(kwargs[t], ctx[t])])
        /\ IF ShouldFlush(buf)
           THEN /\ pc' = [pc EXCEPT ![t] = "fl_acquire"]
                /\ UNCHANGED <<op, result, hist>>
           ELSE Return(t, "ok")
    /\ UNCHANGED <<req, lazy, ctx, kwargs,
                   dbw, cfg, os, set_events, n_events, n_flushers, batch, wev, written>>

\* ------------------------------------------------------------ flush()
\* An explicit flush() call by the application (core.py 127).
CallFlush(t) ==
    /\ pc[t] = "idle"
    /\ op' = [op EXCEPT ![t] = "flush"]
    /\ pc' = [pc EXCEPT ![t] = "fl_acquire"]
    /\ UNCHANGED <<req, lazy, ctx, kwargs, recs,
                   dbw, cfg, lg, os, set_events, n_events, n_flushers, batch, wev,
                   written, n_appended, result, hist>>

\* `with self._lock:` in flush (core.py 129).
FlushAcquire(a) ==
    /\ pc[a] = "fl_acquire"
    /\ lg.lock = None
    /\ lg' = [lg EXCEPT !.lock = a]
    /\ pc' = [pc EXCEPT ![a] = "fl_cs"]
    /\ UNCHANGED <<req, lazy, ctx, kwargs, recs,
                   dbw, cfg, os, set_events, n_events, n_flushers, op, batch, wev,
                   written, n_appended, result, hist>>

\* A flush that takes the batch and leaves the records in the buffer.
FlushSwapKeepsBuffer(a) ==
    /\ pc[a] = "fl_cs"
    /\ IF lg.buffer = <<>>
       THEN /\ lg' = [lg EXCEPT !.lock = None]
            /\ FlushDone(a, "ok")
            /\ UNCHANGED batch
       ELSE /\ batch' = [batch EXCEPT ![a] = lg.buffer]
            /\ lg' = [lg EXCEPT !.lock = None]
            /\ pc' = [pc EXCEPT ![a] = "fl_write"]
            /\ UNCHANGED <<op, result, hist>>
    /\ UNCHANGED <<req, lazy, ctx, kwargs, recs,
                   dbw, cfg, os, set_events, n_events, n_flushers, wev,
                   written, n_appended>>

\* A flush that calls the writer inside `with self._lock:`.
FlushSwapHoldsLock(a) ==
    /\ pc[a] = "fl_cs"
    /\ IF lg.buffer = <<>>
       THEN /\ lg' = [lg EXCEPT !.lock = None]
            /\ FlushDone(a, "ok")
            /\ UNCHANGED batch
       ELSE /\ batch' = [batch EXCEPT ![a] = lg.buffer]
            /\ lg' = [lg EXCEPT !.buffer = <<>>]
            /\ pc' = [pc EXCEPT ![a] = "fl_write"]
            /\ UNCHANGED <<op, result, hist>>
    /\ UNCHANGED <<req, lazy, ctx, kwargs, recs,
                   dbw, cfg, os, set_events, n_events, n_flushers, wev,
                   written, n_appended>>

\* A flush without the test for an empty buffer: it hands an empty batch over.
FlushSwapWritesEmpty(a) ==
    /\ pc[a] = "fl_cs"
    /\ batch' = [batch EXCEPT ![a] = lg.buffer]
    /\ lg' = [lg EXCEPT !.buffer = <<>>, !.lock = None]
    /\ pc' = [pc EXCEPT ![a] = "fl_write"]
    /\ UNCHANGED <<req, lazy, ctx, kwargs, recs,
                   dbw, cfg, os, set_events, n_events, n_flushers, wev,
                   written, n_appended, op, result, hist>>

\* The critical section of flush (core.py 130-133) and the release of the lock:
\* return on an empty buffer, else swap the buffer for an empty one.
FlushSwap(a) ==
    /\ pc[a] = "fl_cs"
    /\ IF lg.buffer = <<>>
       THEN /\ lg' = [lg EXCEPT !.lock = None]
            /\ FlushDone(a, "ok")
            /\ UNCHANGED batch
       ELSE /\ batch' = [batch EXCEPT ![a] = lg.buffer]
            /\ lg' = [lg EXCEPT !.buffer = <<>>, !.lock = None]
            /\ pc' = [pc EXCEPT ![a] = "fl_write"]
            /\ UNCHANGED <<op, result, hist>>
    /\ UNCHANGED <<req, lazy, ctx, kwargs, recs,
                   dbw, cfg, os, set_events, n_events, n_flushers, wev,
                   written, n_appended>>

\* `self._writer.write(batch)` is entered (core.py 135).
WriterBegin(a) ==
    /\ pc[a] = "fl_write"
    /\ written' = Append(written, batch[a])
    /\ hist' = [hist EXCEPT ![a].writes = IF op[a] = "close" THEN @ + 1 ELSE @]
    /\ pc' = [pc EXCEPT ![a] = IF cfg.mode = "db" THEN "db_call" ELSE "fl_writing"]
    /\ dbw' = IF cfg.mode = "db" THEN [dbw EXCEPT ![a] = [NoWrite EXCEPT !.records = batch[a]]]
              ELSE dbw
    /\ UNCHANGED <<req, lazy, ctx, kwargs, recs,
                   cfg, lg, os, set_events, n_events, n_flushers, op, batch, wev,
                   n_appended, result>>

\* A writer end that puts the batch back in front of the buffer when the
\* write has failed.
WriterEndRequeues(a) ==
    /\ pc[a] = "fl_writing"
    /\ batch' = [batch EXCEPT ![a] = <<>>]
    /\ \E res \in WriteOutcomes :
         /\ FlushDone(a, res)
         /\ lg' = IF res = "raise" THEN [lg EXCEPT !.buffer = batch[a] \o @] ELSE lg
    /\ UNCHANGED <<req, lazy, ctx, kwargs, recs,
                   dbw, cfg, os, set_events, n_events, n_flushers, wev,
                   written, n_appended>>

\* _FileWriter.write(batch) returns or raises; flush() ends with it.
WriterEnd(a) ==
    /\ pc[a] = "fl_writing"
    /\ batch' = [batch EXCEPT ![a] = <<>>]
    /\ \E res \in WriteOutcomes : FlushDone(a, res)
    /\ UNCHANGED <<req, lazy, ctx, kwargs, recs,
                   dbw, cfg, lg, os, set_events, n_events, n_flushers, wev,
                   written, n_appended>>

\* ------------------------------------------------------------ _DBWriter
\* A retry test that gives up one attempt early.
ExhaustedOneEarly(n) == n >= cfg.db_retries

\* `if attempts > self._retries:` (core.py 221)
Exhausted(n) == n > cfg.db_retries

\* A policy test under which "stderr" raises as well.
PolicyRaisesOnStderr(mode) == mode \in {"raise", "stderr"}

\* `if self._error_mode == "raise": raise exc` (core.py 234-235)
PolicyRaises(mode) == mode = "raise"

\* A pass of the loop without the `return` after a successful invocation: the
\* loop goes round again.
DbCallNoReturn(a) ==
    /\ pc[a] = "db_call"
    /\ \E out \in {"ok", "fail"} :
         LET w == dbw[a]
             called == [w EXCEPT !.calls = Append(@, w.records)]
         IN IF out = "ok"
            THEN /\ dbw' = [dbw EXCEPT ![a] = [called EXCEPT !.done = TRUE]]
                 /\ UNCHANGED <<pc, batch, op, result, hist>>
            ELSE /\ dbw' = [dbw EXCEPT ![a] = [called EXCEPT !.fails = @ + 1,
                                                            !.last_exc = Len(called.calls),
                                                            !.attempts = @ + 1]]
                 /\ pc' = [pc EXCEPT ![a] = IF Exhausted(w.attempts + 1)
                                            THEN "db_on_error" ELSE "db_call"]
                 /\ UNCHANGED <<batch, op, result, hist>>
    /\ UNCHANGED <<req, lazy, ctx, kwargs, recs,
                   cfg, lg, os, set_events, n_events, n_flushers, wev,
                   written, n_appended>>

\* One pass of the loop of _DBWriter.write (core.py 214-225): the batch function
\* is invoked with `records`; it returns and write returns, or it raises, the
\* error is kept in last_exc and counted, and the loop goes on (after the sleep
\* of retry_delay) or hands over to _handle_error.
DbCall(a) ==
    /\ pc[a] = "db_call"
    /\ \E out \in {"ok", "fail"} :
         LET w == dbw[a]
             called == [w EXCEPT !.calls = Append(@, w.records)]
         IN IF out = "ok"
            THEN /\ dbw' = [dbw EXCEPT ![a] = [called EXCEPT !.done = TRUE]]
                 /\ batch' = [batch EXCEPT ![a] = <<>>]
                 /\ FlushDone(a, "ok")
            ELSE /\ dbw' = [dbw EXCEPT ![a] = [called EXCEPT !.fails = @ + 1,
                                                            !.last_exc = Len(called.calls),
                                                            !.attempts = @ + 1]]
                 /\ pc' = [pc EXCEPT ![a] = IF Exhausted(w.attempts + 1)
                                            THEN "db_on_error" ELSE "db_call"]
                 /\ UNCHANGED <<batch, op, result, hist>>
    /\ UNCHANGED <<req, lazy, ctx, kwargs, recs,
                   cfg, lg, os, set_events, n_events, n_flushers, wev,
                   written, n_appended>>

\* An on_error call whose error is not caught.
OnErrorUncaught(h) == IF h = "raises" THEN "raise" ELSE "ok"

\* `try: self._on_error(records, exc)` / `except Exception: pass` (core.py
\* 230-233): how the statement ends for a callback that returns or raises.
OnErrorResult(h) == IF h = "raises" THEN "swallowed" ELSE "ok"

\* _handle_error, first part (core.py 227-233): on_error, if there is one, is
\* called with the batch and the error; an error that came out of that
\* statement would end write() and flush() before the policy (it is marked
\* -1 in `raised`, the backend's errors being 1, 2, ...).
DbOnError(a) ==
    /\ pc[a] = "db_on_error"
    /\ LET w == dbw[a]
           called == [w EXCEPT !.on_error = Append(@, <<w.records, w.last_exc>>)]
       IN IF cfg.db_on_error = "none"
          THEN /\ pc' = [pc EXCEPT ![a] = "db_handle"]
               /\ UNCHANGED <<dbw, batch, op, result, hist>>
          ELSE IF OnErrorResult(cfg.db_on_error) = "raise"
          THEN /\ dbw' = [dbw EXCEPT ![a] = [called EXCEPT !.raised = -1, !.done = TRUE]]
               /\ batch' = [batch EXCEPT ![a] = <<>>]
               /\ FlushDone(a, "raise")
          ELSE /\ dbw' = [dbw EXCEPT ![a] = called]
               /\ pc' = [pc EXCEPT ![a] = "db_handle"]
               /\ UNCHANGED <<batch, op, result, hist>>
    /\ UNCHANGED <<req, lazy, ctx, kwargs, recs, cfg, lg, os, set_events, n_events,
                   n_flushers, wev, written, n_appended>>

\* _handle_error, second part (core.py 234-239): the policy: "raise" raises
\* the error, "stderr" writes its trace to stderr, "silent" does nothing.
\* write() and flush() end with it.
DbHandleError(a) ==
    /\ pc[a] = "db_handle"
    /\ LET w == dbw[a] IN
        /\ dbw' = [dbw EXCEPT ![a] =
                     [w EXCEPT !.policy = @ + 1,
                               !.raised = IF PolicyRaises(cfg.db_error_mode)
                                          THEN w.last_exc ELSE @,
                               !.stderr = IF ~PolicyRaises(cfg.db_error_mode)
                                             /\ cfg.db_error_mode = "stderr"
                                          THEN @ + 1 ELSE @,
                               !.done = TRUE]]
        /\ batch' = [batch EXCEPT ![a] = <<>>]
        /\ FlushDone(a, IF PolicyRaises(cfg.db_error_mode) THEN "raise" ELSE "ok")
    /\ UNCHANGED <<req, lazy, ctx, kwargs, recs,
                   cfg, lg, os, set_events, n_events, n_flushers, wev,
                   written, n_appended>>

\* ------------------------------------------------------------ close()
\* close() entry: `self._closed = True` (core.py 139).
CallClose(t) ==
    /\ pc[t] = "idle"
    /\ op' = [op EXCEPT ![t] = "close"]
    /\ hist' = [hist EXCEPT ![t] = [NoHist EXCEPT !.call_mark = n_appended]]
    /\ lg' = [lg EXCEPT !.closed = TRUE]
    /\ pc' = [pc EXCEPT ![t] = "cl_stop"]
    /\ UNCHANGED <<req, lazy, ctx, kwargs, recs,
                   dbw, cfg, os, set_events, n_events, n_flushers, batch, wev,
                   written, n_appended, result>>

\* `if self._flusher is not None: self._stop_event.set()` (core.py 140-141).
CloseStop(a) ==
    /\ pc[a] = "cl_stop"
    /\ IF lg.flusher # None
       THEN /\ set_events' = set_events \cup {lg.stop_event}
            /\ pc' = [pc EXCEPT ![a] = "cl_join"]
       ELSE /\ pc' = [pc EXCEPT ![a] = "fl_acquire"]
            /\ UNCHANGED set_events
    /\ UNCHANGED <<req, lazy, ctx, kwargs, recs,
                   dbw, cfg, lg, os, n_events, n_flushers, op, batch, wev,
                   written, n_appended, result, hist>>

\* A flusher that can stay alive for longer than join's timeout: it is inside a
\* writer call (slow I/O, retry sleeps), or inside wait(interval) on an Event
\* that is not set.
OutlastsJoin(f) ==
    \/ pc[f] \in {"fl_writing", "db_call", "db_on_error", "db_handle"}
    \/ pc[f] = "wait" /\ wev[f] \notin set_events

\* A close() that does not wait for the flusher at all.
CloseJoinSkipped(a) ==
    /\ pc[a] = "cl_join"
    /\ hist' = [hist EXCEPT ![a].joined = lg.flusher]
    /\ pc' = [pc EXCEPT ![a] = "fl_acquire"]
    /\ UNCHANGED <<req, lazy, ctx, kwargs, recs,
                   dbw, cfg, lg, os, set_events, n_events, n_flushers, op, batch, wev,
                   written, n_appended, result>>

\* `self._flusher.join(timeout=1.0)` (core.py 142): returns when the thread
\* has ended, or after the timeout while it is still alive.
CloseJoin(a) ==
    /\ pc[a] = "cl_join"
    /\ \/ /\ ~IsAlive(lg.flusher)
          /\ hist' = [hist EXCEPT ![a].joined = lg.flusher]
       \/ /\ IsAlive(lg.flusher)
          /\ OutlastsJoin(lg.flusher)
          /\ hist' = [hist EXCEPT ![a].joined = lg.flusher, ![a].timed_out = TRUE]
    /\ pc' = [pc EXCEPT ![a] = "fl_acquire"]
    /\ UNCHANGED <<req, lazy, ctx, kwargs, recs,
                   dbw, cfg, lg, os, set_events, n_events, n_flushers, op, batch, wev,
                   written, n_appended, result>>

\* ------------------------------------------------------------ _flush_loop
\* `self._stop_event` is read and wait(interval) entered (core.py 163).
FlushLoopWait(f) ==
    /\ pc[f] = "loop"
    /\ wev' = [wev EXCEPT ![f] = lg.stop_event]
    /\ pc' = [pc EXCEPT ![f] = "wait"]
    /\ result' = [result EXCEPT ![f] = [op |-> "none", res |-> "ok"]]
    /\ UNCHANGED <<req, lazy, ctx, kwargs, recs,
                   dbw, cfg, lg, os, set_events, n_events, n_flushers, op, batch,
                   written, n_appended, hist>>

\* A loop that wakes up after the interval and goes back to waiting without
\* calling flush().
FlushLoopWakeNoFlush(f) ==
    /\ pc[f] = "wait"
    /\ pc' = [pc EXCEPT ![f] = IF wev[f] \in set_events THEN "dead" ELSE "loop"]
    /\ UNCHANGED <<req, lazy, ctx, kwargs, recs,
                   dbw, cfg, lg, os, set_events, n_events, n_flushers, op, batch, wev,
                   written, n_appended, result, hist>>

\* wait(interval) returns: True when the Event is set (the loop and the thread
\* end), False after the interval (a tick: flush() is called) (core.py 163-165).
FlushLoopWake(f) ==
    /\ pc[f] = "wait"
    /\ pc' = [pc EXCEPT ![f] = IF wev[f] \in set_events THEN "dead" ELSE "fl_acquire"]
    /\ UNCHANGED <<req, lazy, ctx, kwargs, recs,
                   dbw, cfg, lg, os, set_events, n_events, n_flushers, op, batch, wev,
                   written, n_appended, result, hist>>

\* ------------------------------------------------------------ web middlewares
\* dict.get(key): the value, or None.
Get(d, key) == IF key \in DOMAIN d THEN d[key] ELSE PyNone

\* Python's `a or b`: a if it is true, else b.
Or(a, b) == IF Truthy(a) THEN a ELSE b

\* pick_trace_id(headers, environ) (web/common.py 33-41); a missing or empty
\* mapping is the empty function, false in `if headers:` like None.
PickTraceId(headers, environ) ==
    LET trace_id == Or(Get(headers, "x-trace-id"), Get(headers, "x-request-id"))
    IN IF DOMAIN headers # {} /\ Truthy(trace_id) THEN trace_id
       ELSE IF DOMAIN environ # {}
            THEN Or(Get(environ, "HTTP_X_TRACE_ID"), Get(environ, "HTTP_X_REQUEST_ID"))
            ELSE PyNone

\* The request headers the model draws from: none, a trace id, a request id,
\* an empty trace id.
Headers ==
    {NoKwargs, [k \in {"x-trace-id"} |-> "abc123"], [k \in {"x-request-id"} |-> "req42"],
     [k \in {"x-trace-id"} |-> ""]}

\* The WSGI environs the model draws from.
Environs == {NoKwargs, [k \in {"HTTP_X_TRACE_ID"} |-> "env7"]}

\* The middlewares: DjangoMiddleware, FastAPIMiddleware, FlaskMiddleware.
Middlewares == {"django", "fastapi", "flask"}

\* A thread that is serving no request.
NoRequest == [mw |-> "none", previous |-> PyNone]

\* The middleware's entry for a request served by thread t:
\* `previous = get_trace_id()`, `set_trace_id(pick_trace_id(...))`
\* (django.py 60-64, fastapi.py 42-44 without environ, flask.py 40-42).
RequestEnter(t) ==
    /\ pc[t] = "idle"
    /\ req[t].mw = "none"
    /\ \E mw \in Middlewares, headers \in Headers, environ \in Environs :
         /\ req' = [req EXCEPT ![t] = [mw |-> mw, previous |-> ctx[t]]]
         /\ ctx' = [ctx EXCEPT ![t] =
                      NewTraceId(PickTraceId(headers,
                                             IF mw = "fastapi" THEN NoKwargs ELSE environ))]
    /\ UNCHANGED <<cfg, lg, os, set_events, n_events, n_flushers, pc, op, batch, wev,
                   written, n_appended, result, hist, dbw, kwargs, recs, lazy>>

\* The end of the request: `finally: set_trace_id(previous)` when the handler
\* returns or raises (django.py 67-68, fastapi.py 47-48), or _after_request
\* (flask.py 47-48).
RequestExit(t) ==
    /\ pc[t] = "idle"
    /\ req[t].mw # "none"
    /\ ctx' = [ctx EXCEPT ![t] = NewTraceId(req[t].previous)]
    /\ req' = [req EXCEPT ![t] = NoRequest]
    /\ UNCHANGED <<cfg, lg, os, set_events, n_events, n_flushers, pc, op, batch, wev,
                   written, n_appended, result, hist, dbw, kwargs, recs, lazy>>

\* ------------------------------------------------------------ LazyLogger
\* Attribute accesses one thread makes on the LazyLogger.
MaxAccess == 2

\* The threads that use the LazyLogger: the application threads and one more.
LazyUsers == Threads \cup {<<"t", 3>>}

\* LazyLogger.__init__ (lazy.py 8-11): the factory is stored, not called;
\* _logger is None (0; the k-th call of the factory returns instance k), the
\* lock is free.  Per thread: its position in __getattr__, the accesses it has
\* begun, the instance its last access was proxied to (0: none yet).
NewLazyLogger ==
    [logger |-> 0, lock |-> None, calls |-> 0,
     pc |-> [t \in LazyUsers |-> "idle"],
     n |-> [t \in LazyUsers |-> 0],
     got |-> [t \in LazyUsers |-> 0]]

\* `lazy.name` is evaluated by thread t: __getattr__ calls _get_logger
\* (lazy.py 21-23).
LazyGetattr(t) ==
    /\ lazy.pc[t] = "idle"
    /\ lazy.n[t] < MaxAccess
    /\ lazy' = [lazy EXCEPT !.pc[t] = "lz_test", !.n[t] = @ + 1]
    /\ UNCHANGED <<req, cfg, lg, os, set_events, n_events, n_flushers, pc, op, batch, wev,
                   written, n_appended, result, hist, dbw, ctx, kwargs, recs>>

\* The outer `if self._logger is None:` (lazy.py 15).
LazyTest(t) ==
    /\ lazy.pc[t] = "lz_test"
    /\ lazy' = [lazy EXCEPT !.pc[t] = IF lazy.logger = 0 THEN "lz_acquire" ELSE "lz_proxy"]
    /\ UNCHANGED <<req, cfg, lg, os, set_events, n_events, n_flushers, pc, op, batch, wev,
                   written, n_appended, result, hist, dbw, ctx, kwargs, recs>>

\* `with self._lock:` (lazy.py 16).
LazyAcquire(t) ==
    /\ lazy.pc[t] = "lz_acquire"
    /\ lazy.lock = None
    /\ lazy' = [lazy EXCEPT !.lock = t, !.pc[t] = "lz_inner"]
    /\ UNCHANGED <<req, cfg, lg, os, set_events, n_events, n_flushers, pc, op, batch, wev,
                   written, n_appended, result, hist, dbw, ctx, kwargs, recs>>

\* An inner step without the second test: the factory is called by whoever
\* gets the lock.
LazyInnerNoRecheck(t) ==
    /\ lazy.pc[t] = "lz_inner"
    /\ lazy' = [lazy EXCEPT !.pc[t] = "lz_factory"]
    /\ UNCHANGED <<req, cfg, lg, os, set_events, n_events, n_flushers, pc, op, batch, wev,
                   written, n_appended, result, hist, dbw, ctx, kwargs, recs>>

\* The inner `if self._logger is None:` under the lock (lazy.py 17); when the
\* logger is there the with-block ends and the lock is released.
LazyInner(t) ==
    /\ lazy.pc[t] = "lz_inner"
    /\ lazy' = IF lazy.logger = 0
               THEN [lazy EXCEPT !.pc[t] = "lz_factory"]
               ELSE [lazy EXCEPT !.pc[t] = "lz_proxy", !.lock = None]
    /\ UNCHANGED <<req, cfg, lg, os, set_events, n_events, n_flushers, pc, op, batch, wev,
                   written, n_appended, result, hist, dbw, ctx, kwargs, recs>>

\* `self._logger = self._factory()` (lazy.py 18): the factory builds and
\* returns a new logger; then the lock is released.
LazyFactory(t) ==
    /\ lazy.pc[t] = "lz_factory"
    /\ lazy' = [lazy EXCEPT !.calls = @ + 1, !.logger = lazy.calls + 1,
                            !.lock = None, !.pc[t] = "lz_proxy"]
    /\ UNCHANGED <<req, cfg, lg, os, set_events, n_events, n_flushers, pc, op, batch, wev,
                   written, n_appended, result, hist, dbw, ctx, kwargs, recs>>

\* `return self._logger` and `getattr(<it>, name)` (lazy.py 19, 23): the
\* access is proxied to the instance _logger holds now.
LazyProxy(t) ==
    /\ lazy.pc[t] = "lz_proxy"
    /\ lazy' = [lazy EXCEPT !.got[t] = lazy.logger, !.pc[t] = "idle"]
    /\ UNCHANGED <<req, cfg, lg, os, set_events, n_events, n_flushers, pc, op, batch, wev,
                   written, n_appended, result, hist, dbw, ctx, kwargs, recs>>

LazyStep(t) ==
    \/ LazyGetattr(t) \/ LazyTest(t) \/ LazyAcquire(t)
    \/ LazyInner(t) \/ LazyFactory(t) \/ LazyProxy(t)

\* ------------------------------------------------------------ construction
\* The process that constructs the logger: pid 1, running (no exit code yet).
Running == -1
NewProcess ==
    [pid |-> 1, exit_code |-> Running, at_signal |-> <<>>, main_pc |-> "idle",
     enable_signals |-> FALSE, enable_atexit |-> FALSE, has_close |-> TRUE,
     fired |-> <<>>, cleanups |-> <<>>, status |-> 0,
     twins |-> <<>>, twin_written |-> <<>>]

\* Ocelogger.__init__ (core.py 40-55): the fields after construction in process
\* 1; with a positive interval _start_flusher has run once.
NewLogger(c) ==
    [buffer |-> <<>>, lock |-> None, closed |-> FALSE, pid |-> 1,
     stop_event |-> IF c.flush_interval > 0 THEN 1 ELSE 0,
     flusher |-> IF c.flush_interval > 0 THEN <<"f", 1>> ELSE None,
     flusher_pid |-> IF c.flush_interval > 0 THEN 1 ELSE 0]

\* A lock that is held and has no thread left to release it: in the child of a
\* fork, a lock that another thread of the parent held.
Orphan == <<"gone", 0>>

\* The actors after construction: idle threads, flusher 1 in its loop if started.
NewPc(c) ==
    [a \in Actors |->
        IF a \in Threads THEN "idle"
        ELSE IF a = Sig THEN "off"
        ELSE IF a = <<"f", 1>> /\ c.flush_interval > 0 THEN "loop" ELSE "unborn"]

InitWith(c) ==
    /\ cfg = c
    /\ lg = NewLogger(c)
    /\ os = NewProcess
    /\ set_events = {}
    /\ n_events = IF c.flush_interval > 0 THEN 1 ELSE 0
    /\ n_flushers = IF c.flush_interval > 0 THEN 1 ELSE 0
    /\ pc = NewPc(c)
    /\ op = [a \in Actors |-> IF a \in Flushers THEN "tick" ELSE "none"]
    /\ batch = [a \in Actors |-> <<>>]
    /\ wev = [f \in Flushers |-> 0]
    /\ written = <<>>
    /\ n_appended = 0
    /\ result = [a \in Actors |-> [op |-> "none", res |-> "ok"]]
    /\ hist = [a \in Actors |-> NoHist]
    /\ dbw = [a \in Actors |-> NoWrite]
    /\ ctx = [t \in Threads |-> PyNone]
    /\ kwargs = [t \in Threads |-> NoKwargs]
    /\ recs = <<>>
    /\ lazy = NewLazyLogger
    /\ req = [t \in Threads |-> NoRequest]

\* The configurations of the concurrency model: size trigger off or at 2,
\* background flushing off or on, the file writer (each call may raise).
Configs ==
    {[max_buffer |-> m, flush_interval |-> i, mode |-> "file", db_writer |-> "None",
      db_error_mode |-> "silent", db_retries |-> 0, db_on_error |-> "none"] :
        m \in {0, 2}, i \in {0, 1}}

Init == \E c \in Configs : InitWith(c)

\* The steps of log() up to its flush, without a restart of the flusher.
LogStep(t) == CallLog(t) \/ EnsureFlusher(t) \/ LogAcquire(t) \/ LogAppend(t)

\* The restart of the flusher by log(): it takes a second thread or a fork.
RestartStep(t) == StartFlusherEvent(t) \/ StartFlusherThread(t)

\* The steps of close() up to its flush.
CloseStep(t) == CallClose(t) \/ CloseStop(t) \/ CloseJoin(t)

ThreadStep(t) == LogStep(t) \/ RestartStep(t) \/ CallFlush(t) \/ CloseStep(t)

\* flush() up to the writer call.
SwapStep(a) == FlushAcquire(a) \/ FlushSwap(a) \/ WriterBegin(a)

\* flush() with the file writer.
FlushStep(a) == SwapStep(a) \/ WriterEnd(a)

\* _DBWriter.write and _handle_error.
DbStep(a) == DbCall(a) \/ DbOnError(a) \/ DbHandleError(a)

FlusherStep(f) == FlushLoopWait(f) \/ FlushLoopWake(f)

\* The threads and flushers of the process, without signals and forks.
Next ==
    \/ \E t \in Threads : ThreadStep(t) \/ FlushStep(t)
    \/ \E f \in Flushers : FlusherStep(f) \/ FlushStep(f)

Spec == Init /\ [][Next]_vars

\* ------------------------------------------------------------ exit hooks
\* The process after register_exit_hooks(logger, enable_signals, enable_atexit)
\* (lifecycle.py 7, 22-27); has_close is hasattr(logger, "close"), which is true
\* of an Ocelogger and false of an object that offers flush() only.
RegisterExitHooks(has_close, enable_signals, enable_atexit) ==
    [NewProcess EXCEPT !.has_close = has_close, !.enable_signals = enable_signals,
                       !.enable_atexit = enable_atexit]

\* One call of _cleanup (lifecycle.py 9-14): what triggered it and the method
\* of the logger it calls.
CleanupCall(trigger) ==
    [trigger |-> trigger, method |-> IF os.has_close THEN "close" ELSE "flush"]

\* Where _cleanup starts in the logger: after close()'s `self._closed = True`
\* (core.py 139), or at flush()'s lock (core.py 130).
CleanupEntry == IF os.has_close THEN "cl_stop" ELSE "fl_acquire"

\* SIGTERM or SIGINT is delivered: _handle_signal runs on the main thread, between
\* two bytecodes of whatever it was executing, and calls _cleanup, which calls
\* logger.close() (lifecycle.py 10-12, 18-19; core.py 139).
\* The frame the main thread was executing stays suspended while the handler runs.
SignalDelivered ==
    /\ pc[Sig] = "armed"
    /\ os' = [os EXCEPT !.at_signal = lg.buffer, !.main_pc = pc[Main],
                        !.fired = Append(@, "signal"),
                        !.cleanups = Append(@, CleanupCall("signal"))]
    /\ lg' = [lg EXCEPT !.closed = IF os.has_close THEN TRUE ELSE @]
    /\ op' = [op EXCEPT ![Sig] = "cleanup"]
    /\ hist' = [hist EXCEPT ![Sig] = [NoHist EXCEPT !.call_mark = n_appended]]
    /\ pc' = [pc EXCEPT ![Sig] = CleanupEntry, ![Main] = "suspended"]
    /\ UNCHANGED <<req, lazy, ctx, kwargs, recs,
                   dbw, cfg, set_events, n_events, n_flushers, batch, wev,
                   written, n_appended, result>>

\* A SIGTERM for which no handler is registered (lifecycle.py 25): the default
\* disposition ends the process at once, with no cleanup and no exit hook; its
\* status is that of a process killed by signal 15.
SignalDefault ==
    /\ ~os.enable_signals
    /\ os.exit_code = Running
    /\ os' = [os EXCEPT !.fired = Append(@, "signal"), !.exit_code = -15]
    /\ pc' = [a \in Actors |-> "exited"]
    /\ UNCHANGED <<req, lazy, ctx, kwargs, recs,
                   dbw, cfg, lg, set_events, n_events, n_flushers, op, batch, wev,
                   written, n_appended, result, hist>>

\* The main thread ends the program while it is in no call of the logger: it
\* returns from the script (status 0) or calls sys.exit(3).  At interpreter
\* exit the atexit hook, if registered, runs _cleanup (lifecycle.py 22-23).
NormalExit ==
    /\ pc[Main] = "idle"
    /\ pc[Sig] \in {"armed", "off"}
    /\ os.exit_code = Running
    /\ \E s \in {0, 3} :
         os' = [os EXCEPT !.status = s, !.fired = Append(@, "exit"),
                          !.cleanups = IF os.enable_atexit
                                       THEN Append(@, CleanupCall("exit")) ELSE @]
    /\ lg' = [lg EXCEPT !.closed = IF os.enable_atexit /\ os.has_close THEN TRUE ELSE @]
    /\ op' = [op EXCEPT ![Sig] = "atexit"]
    /\ hist' = [hist EXCEPT ![Sig] = [NoHist EXCEPT !.call_mark = n_appended]]
    /\ pc' = [pc EXCEPT ![Sig] = IF os.enable_atexit THEN CleanupEntry ELSE "finalize",
                        ![Main] = "ended"]
    /\ UNCHANGED <<req, lazy, ctx, kwargs, recs,
                   dbw, cfg, set_events, n_events, n_flushers, batch, wev,
                   written, n_appended, result>>

\* `sys.exit(0)` in the handler (lifecycle.py 20), reached when _cleanup has
\* returned: SystemExit unwinds the frames of the main thread (its local batch
\* is gone, its with-block releases the lock) and the exit status is 0; an
\* exception that came out of _cleanup instead would unwind them as an uncaught
\* error, status 1.  At interpreter exit the atexit hook, if registered, runs
\* _cleanup again (lifecycle.py 22-23).
SysExit ==
    /\ pc[Sig] = "sys_exit"
    /\ os' = [os EXCEPT !.status = IF result[Sig].res = "raise" THEN 1 ELSE 0,
                        !.fired = Append(@, "exit"),
                        !.cleanups = IF os.enable_atexit
                                     THEN Append(@, CleanupCall("exit")) ELSE @]
    /\ lg' = [lg EXCEPT !.closed = IF os.enable_atexit /\ os.has_close THEN TRUE ELSE @,
                        !.lock = IF lg.lock = Main THEN None ELSE @]
    /\ op' = [op EXCEPT ![Sig] = "atexit", ![Main] = "none"]
    /\ batch' = [batch EXCEPT ![Main] = <<>>]
    /\ hist' = [hist EXCEPT ![Sig] = [NoHist EXCEPT !.call_mark = n_appended]]
    /\ pc' = [pc EXCEPT ![Sig] = IF os.enable_atexit THEN CleanupEntry ELSE "finalize",
                        ![Main] = "unwound"]
    /\ UNCHANGED <<req, lazy, ctx, kwargs, recs,
                   dbw, cfg, set_events, n_events, n_flushers, wev,
                   written, n_appended, result>>

\* The process ends with the status of its exit: that of sys.exit(0) after the
\* handler; its daemon flusher thread ends with it, wherever it is.
Finalize ==
    /\ pc[Sig] = "finalize"
    /\ os' = [os EXCEPT !.exit_code = os.status]
    /\ pc' = [a \in Actors |-> "exited"]
    /\ UNCHANGED <<req, lazy, ctx, kwargs, recs,
                   dbw, cfg, lg, set_events, n_events, n_flushers, op, batch, wev,
                   written, n_appended, result, hist>>

\* The steps of the handler and of the exit hook: close() run by the main
\* thread on top of its suspended frame.
HookStep ==
    \/ SignalDelivered \/ CloseStop(Sig) \/ CloseJoin(Sig) \/ FlushStep(Sig)
    \/ SysExit \/ Finalize

\* register_exit_hooks(logger) has been called after construction
\* (lifecycle.py 22-27): a single-threaded application with a flusher.
InitHooked ==
    \E c \in Configs :
        /\ InitWith(c)!1 /\ InitWith(c)!2
        /\ os = RegisterExitHooks(TRUE, TRUE, TRUE)
        /\ InitWith(c)!4
        /\ InitWith(c)!5 /\ InitWith(c)!6
        /\ pc = [NewPc(c) EXCEPT ![Sig] = "armed", ![Worker] = "gone"]
        /\ InitWith(c)!8 /\ InitWith(c)!9 /\ InitWith(c)!10 /\ InitWith(c)!11
        /\ InitWith(c)!12 /\ InitWith(c)!13 /\ InitWith(c)!14 /\ InitWith(c)!15
        /\ InitWith(c)!16 /\ InitWith(c)!17 /\ InitWith(c)!18 /\ InitWith(c)!19
        /\ InitWith(c)!20

NextSignal ==
    \/ \E t \in {Main} : LogStep(t) \/ CallFlush(t) \/ CloseStep(t) \/ FlushStep(t)
    \/ \E f \in Flushers : FlusherStep(f) \/ FlushStep(f)
    \/ HookStep

SpecSignal == InitHooked /\ [][NextSignal]_vars

\* register_exit_hooks with each choice of its flags, for an Ocelogger or for a
\* logger object that has flush() only, in a single-threaded application.
InitHooks ==
    \E c \in Configs, has_close \in BOOLEAN, enable_signals \in BOOLEAN,
       enable_atexit \in BOOLEAN :
        /\ InitWith(c)!1 /\ InitWith(c)!2
        /\ os = RegisterExitHooks(has_close, enable_signals, enable_atexit)
        /\ InitWith(c)!4
        /\ InitWith(c)!5 /\ InitWith(c)!6
        /\ pc = [NewPc(c) EXCEPT ![Sig] = IF enable_signals THEN "armed" ELSE "off",
                                 ![Worker] = "gone"]
        /\ InitWith(c)!8 /\ InitWith(c)!9 /\ InitWith(c)!10 /\ InitWith(c)!11
        /\ InitWith(c)!12 /\ InitWith(c)!13 /\ InitWith(c)!14 /\ InitWith(c)!15
        /\ InitWith(c)!16 /\ InitWith(c)!17 /\ InitWith(c)!18 /\ InitWith(c)!19
        /\ InitWith(c)!20

\* The application logs and flushes; it ends by itself or by a signal.
NextHooks ==
    \/ \E t \in {Main} : LogStep(t) \/ CallFlush(t) \/ FlushStep(t)
    \/ \E f \in Flushers : FlusherStep(f) \/ FlushStep(f)
    \/ HookStep
    \/ SignalDefault \/ NormalExit

SpecHooks == InitHooks /\ [][NextHooks]_vars

\* ------------------------------------------------------------ fork
\* Forks a run may make.
MaxForks == 1

\* os.fork() called by thread t from application code, seen from the child: the
\* child has a copy of the logger and only the thread that forked; the other
\* threads and the flushers do not exist in it, and a lock another thread held
\* stays held.  Then the at-fork hook runs _after_fork (core.py 56-58, 178-183).
\* `twins` are the buffers of the processes that are followed besides the child.
ForkAs(t, twins) ==
    /\ pc[t] = "idle"
    /\ os.pid <= MaxForks
    /\ os' = [os EXCEPT !.pid = @ + 1, !.twins = twins]
    /\ n_events' = n_events + 1
    /\ lg' = [lg EXCEPT !.lock = IF @ = None THEN None ELSE Orphan,
                         !.pid = os.pid + 1,
                         !.flusher = None,
                         !.flusher_pid = os.pid + 1,
                         !.stop_event = n_events + 1]
    /\ pc' = [a \in Actors |->
                IF a = t \/ a = Sig THEN pc[a]
                ELSE IF a \in Threads THEN "gone"
                ELSE IF pc[a] = "unborn" THEN "unborn" ELSE "dead"]
    /\ op' = [a \in Actors |-> IF a \in Threads \ {t} THEN "none" ELSE op[a]]
    /\ batch' = [a \in Actors |-> IF a = t THEN batch[a] ELSE <<>>]
    /\ hist' = [a \in Actors |-> IF a = t THEN hist[a] ELSE NoHist]
    /\ UNCHANGED <<req, lazy, ctx, kwargs, recs,
                   dbw, cfg, set_events, n_flushers, wev, written, n_appended, result>>

\* A fork of which only the child is followed.
Fork(t) == ForkAs(t, os.twins)

\* A fork of which the parent is followed too: fork copies the memory, and
\* _after_fork (core.py 178-183) leaves self._buffer alone in both processes, so
\* the parent goes on with the same buffered records as the child.
ForkTwin(t) == ForkAs(t, Append(os.twins, lg.buffer))

\* flush() in a process p that has forked (core.py 127-135), as one step: it
\* swaps its buffer for an empty one and hands the batch to its writer.
TwinFlush(p) ==
    /\ p \in 1..Len(os.twins)
    /\ os.twins[p] # <<>>
    /\ os' = [os EXCEPT !.twins[p] = <<>>,
                        !.twin_written = Append(@, os.twins[p])]
    /\ UNCHANGED <<cfg, lg, set_events, n_events, n_flushers, pc, op, batch, wev,
                   written, n_appended, result, hist, dbw, ctx, kwargs, recs, lazy, req>>

\* A single-threaded application that may fork, parent and child followed.
NextTwin ==
    \/ \E t \in {Main} : ThreadStep(t) \/ FlushStep(t) \/ ForkTwin(t)
    \/ \E f \in Flushers : FlusherStep(f) \/ FlushStep(f)
    \/ \E p \in 1..MaxForks : TwinFlush(p)

\* The child starts a thread of its own in place of one it did not inherit.
Spawn(u) ==
    /\ pc[u] = "gone"
    /\ pc' = [pc EXCEPT ![u] = "idle"]
    /\ result' = [result EXCEPT ![u] = [op |-> "none", res |-> "ok"]]
    /\ UNCHANGED <<req, lazy, ctx, kwargs, recs,
                   dbw, cfg, lg, os, set_events, n_events, n_flushers, op, batch, wev,
                   written, n_appended, hist>>

\* Background flushing is on in every run with forks.
ForkConfigs == {c \in Configs : c.flush_interval > 0}

InitFork == \E c \in ForkConfigs : InitWith(c)

\* Two threads that log and close, in a process that may fork.
NextFork ==
    \/ \E t \in Threads : LogStep(t) \/ RestartStep(t) \/ CloseStep(t) \/ FlushStep(t)
                            \/ Fork(t) \/ Spawn(t)
    \/ \E f \in Flushers : FlusherStep(f) \/ FlushStep(f)

SpecFork == InitFork /\ [][NextFork]_vars

\* A single-threaded application that may fork.
InitForkSolo ==
    \E c \in ForkConfigs :
        /\ InitWith(c)!1 /\ InitWith(c)!2 /\ InitWith(c)!3 /\ InitWith(c)!4
        /\ InitWith(c)!5 /\ InitWith(c)!6
        /\ pc = [NewPc(c) EXCEPT ![Worker] = "gone"]
        /\ InitWith(c)!8 /\ InitWith(c)!9 /\ InitWith(c)!10 /\ InitWith(c)!11
        /\ InitWith(c)!12 /\ InitWith(c)!13 /\ InitWith(c)!14 /\ InitWith(c)!15
        /\ InitWith(c)!16 /\ InitWith(c)!17 /\ InitWith(c)!18 /\ InitWith(c)!19
        /\ InitWith(c)!20

NextForkSolo ==
    \/ \E t \in {Main} : ThreadStep(t) \/ FlushStep(t) \/ Fork(t)
    \/ \E f \in Flushers : FlusherStep(f) \/ FlushStep(f)

\* What a thread does next inside a call it has started: the operating system
\* schedules every runnable thread, so a step that stays possible is taken.
Progress(t) ==
    \/ EnsureFlusher(t) \/ RestartStep(t) \/ LogAcquire(t) \/ LogAppend(t)
    \/ CloseStop(t) \/ CloseJoin(t) \/ FlushStep(t)

\* A thread that waits for the lock gets it if the lock is free again and again:
\* the critical sections are short and the flusher sleeps between two of its own.
Acquire(a) == LogAcquire(a) \/ FlushAcquire(a)

SpecForkFair ==
    /\ InitForkSolo
    /\ [][NextForkSolo]_vars
    /\ WF_vars(Progress(Main))
    /\ SF_vars(Acquire(Main))
    /\ \A f \in Flushers : WF_vars(FlusherStep(f) \/ FlushStep(f)) /\ SF_vars(Acquire(f))

\* Loggers with a flush interval that is negative, zero (false like None: no
\* interval) or positive, in a single-threaded application that may fork.
IntervalConfigs ==
    {[max_buffer |-> m, flush_interval |-> i, mode |-> "file", db_writer |-> "None",
      db_error_mode |-> "silent", db_retries |-> 0, db_on_error |-> "none"] :
        m \in {0, 2}, i \in {-1, 0, 1}}

InitInterval ==
    \E c \in IntervalConfigs :
        /\ InitWith(c)!1 /\ InitWith(c)!2 /\ InitWith(c)!3 /\ InitWith(c)!4
        /\ InitWith(c)!5 /\ InitWith(c)!6
        /\ pc = [NewPc(c) EXCEPT ![Worker] = "gone"]
        /\ InitWith(c)!8 /\ InitWith(c)!9 /\ InitWith(c)!10 /\ InitWith(c)!11
        /\ InitWith(c)!12 /\ InitWith(c)!13 /\ InitWith(c)!14 /\ InitWith(c)!15
        /\ InitWith(c)!16 /\ InitWith(c)!17 /\ InitWith(c)!18 /\ InitWith(c)!19
        /\ InitWith(c)!20

SpecInterval == InitInterval /\ [][NextForkSolo]_vars

\* ------------------------------------------------------------ the db writer
\* Retries a _DBWriter may be configured with.
MaxRetries == 2

\* A logger in mode "db" without background flushing: every retry count, every
\* terminal policy, on_error absent, returning or raising; a batch function
\* that may fail or succeed at each invocation.
WriterConfigs ==
    {[max_buffer |-> m, flush_interval |-> 0, mode |-> "db", db_writer |-> "fn",
      db_error_mode |-> e, db_retries |-> n, db_on_error |-> h] :
        m \in {0, 2}, e \in {"silent", "raise", "stderr"}, n \in 0..MaxRetries,
        h \in {"none", "returns", "raises"}}

InitWriter ==
    \E c \in WriterConfigs :
        /\ InitWith(c)!1 /\ InitWith(c)!2 /\ InitWith(c)!3 /\ InitWith(c)!4
        /\ InitWith(c)!5 /\ InitWith(c)!6
        /\ pc = [NewPc(c) EXCEPT ![Worker] = "gone"]
        /\ InitWith(c)!8 /\ InitWith(c)!9 /\ InitWith(c)!10 /\ InitWith(c)!11
        /\ InitWith(c)!12 /\ InitWith(c)!13 /\ InitWith(c)!14 /\ InitWith(c)!15
        /\ InitWith(c)!16 /\ InitWith(c)!17 /\ InitWith(c)!18 /\ InitWith(c)!19
        /\ InitWith(c)!20

\* One thread that logs and flushes through the db writer (without a flush
\* interval log() returns from _ensure_flusher at once).
NextWriter ==
    \E t \in {Main} : \/ CallLog(t) \/ LogAcquire(t) \/ LogAppend(t)
                       \/ CallFlush(t) \/ SwapStep(t) \/ DbStep(t)

SpecWriter == InitWriter /\ [][NextWriter]_vars

\* A write() call that has started goes on: its thread is scheduled.
SpecWriterFair == SpecWriter /\ WF_vars(DbStep(Main))

\* ------------------------------------------------------------ dropped batches
\* Loggers without a flusher whose writer can fail: the file writer, and the
\* db writer under each policy, with and without a retry.
DropConfigs ==
    {c \in Configs : c.flush_interval = 0} \cup
    {[max_buffer |-> m, flush_interval |-> 0, mode |-> "db", db_writer |-> "fn",
      db_error_mode |-> e, db_retries |-> n, db_on_error |-> "none"] :
        m \in {0, 2}, e \in {"silent", "raise", "stderr"}, n \in {0, 1}}

InitDrop == \E c \in DropConfigs : InitWith(c)

\* Two threads that log and flush.
NextDrop ==
    \E t \in Threads : \/ CallLog(t) \/ LogAcquire(t) \/ LogAppend(t)
                        \/ CallFlush(t) \/ FlushStep(t) \/ DbStep(t)

SpecDrop == InitDrop /\ [][NextDrop]_vars

\* ------------------------------------------------------------ failing ticks
\* Loggers with a flusher whose writer may raise: the file writer, and a db
\* writer with policy "raise".
TickConfigs ==
    ForkConfigs \cup
    {[max_buffer |-> m, flush_interval |-> 1, mode |-> "db", db_writer |-> "fn",
      db_error_mode |-> "raise", db_retries |-> n, db_on_error |-> "none"] :
        m \in {0, 2}, n \in {0, 1}}

InitTick == \E c \in TickConfigs : InitWith(c)

\* Two threads that only log, and the flusher, with either writer.
NextTick ==
    \/ \E t \in Threads : LogStep(t) \/ FlushStep(t) \/ DbStep(t)
    \/ \E f \in Flushers : FlusherStep(f) \/ FlushStep(f) \/ DbStep(f)

SpecTick == InitTick /\ [][NextTick]_vars

SpecTickFair ==
    /\ SpecTick
    /\ \A t \in Threads : WF_vars(Progress(t) \/ DbStep(t)) /\ SF_vars(Acquire(t))
    /\ \A f \in Flushers : /\ WF_vars(FlusherStep(f) \/ FlushStep(f) \/ DbStep(f))
                           /\ SF_vars(Acquire(f))

\* ------------------------------------------------------------ the constructor
\* _init_writer (core.py 62-74): the writer it returns, or the error it raises.
InitWriterResult(c) ==
    IF c.mode = "file" THEN "FileWriter"
    ELSE IF c.mode = "db"
    THEN IF c.db_writer = "None" THEN "ValueError"
         ELSE IF c.db_error_mode \notin {"silent", "raise", "stderr"} THEN "ValueError"
         ELSE "DBWriter"
    ELSE "ValueError"

\* Ocelogger(...) (core.py 16-60) without a flush interval: the constructor
\* raises what _init_writer raises, or returns the logger.
Construct(t) ==
    /\ pc[t] = "new"
    /\ LET w == InitWriterResult(cfg) IN
        /\ pc' = [pc EXCEPT ![t] = IF w = "ValueError" THEN "failed" ELSE "idle"]
        /\ result' = [result EXCEPT ![t] =
                        [op |-> "init", res |-> IF w = "ValueError" THEN w ELSE "ok"]]
    /\ UNCHANGED <<req, lazy, ctx, kwargs, recs,
                   dbw, cfg, lg, os, set_events, n_events, n_flushers, op, batch, wev,
                   written, n_appended, hist>>

\* The arguments of the constructor: a supported or unsupported mode, with or
\* without a batch function, a supported or unsupported policy name.
CtorArgs ==
    {[max_buffer |-> m, flush_interval |-> 0, mode |-> md, db_writer |-> w,
      db_error_mode |-> e, db_retries |-> 0, db_on_error |-> "none"] :
        m \in {0, 2}, md \in {"file", "db", "nope"}, w \in {"None", "fn"},
        e \in {"silent", "raise", "stderr", "nope"}}

\* The main thread is about to construct the logger.
InitConstruct ==
    \E c \in CtorArgs :
        /\ InitWith(c)!1 /\ InitWith(c)!2 /\ InitWith(c)!3 /\ InitWith(c)!4
        /\ InitWith(c)!5 /\ InitWith(c)!6
        /\ pc = [NewPc(c) EXCEPT ![Main] = "new", ![Worker] = "gone"]
        /\ InitWith(c)!8 /\ InitWith(c)!9 /\ InitWith(c)!10 /\ InitWith(c)!11
        /\ InitWith(c)!12 /\ InitWith(c)!13 /\ InitWith(c)!14 /\ InitWith(c)!15
        /\ InitWith(c)!16 /\ InitWith(c)!17 /\ InitWith(c)!18 /\ InitWith(c)!19
        /\ InitWith(c)!20

\* The constructor, then log() and flush() on the logger it returned.
NextConstruct ==
    \E t \in {Main} : \/ Construct(t)
                       \/ CallLog(t) \/ LogAcquire(t) \/ LogAppend(t)
                       \/ CallFlush(t) \/ FlushStep(t) \/ DbStep(t)

SpecConstruct == InitConstruct /\ [][NextConstruct]_vars

\* ------------------------------------------------------------ logging only
\* Two threads that only log: every flush is a tick of the flusher or the
\* size-triggered flush of a log() call.
NextLogOnly ==
    \/ \E t \in Threads : LogStep(t) \/ FlushStep(t)
    \/ \E f \in Flushers : FlusherStep(f) \/ FlushStep(f)

SpecLogOnly == Init /\ [][NextLogOnly]_vars

\* The same with every thread scheduled and every waiter for the lock served.
SpecLogOnlyFair ==
    /\ SpecLogOnly
    /\ \A t \in Threads : WF_vars(Progress(t)) /\ SF_vars(Acquire(t))
    /\ \A f \in Flushers : WF_vars(FlusherStep(f) \/ FlushStep(f)) /\ SF_vars(Acquire(f))

\* ------------------------------------------------------------ one appender
\* One thread that logs while another calls flush() and the flusher ticks: all
\* records are appended by the same caller.
NextOrder ==
    \/ LogStep(Main) \/ FlushStep(Main)
    \/ CallFlush(Worker) \/ FlushStep(Worker)
    \/ \E f \in Flushers : FlusherStep(f) \/ FlushStep(f)

SpecOrder == Init /\ [][NextOrder]_vars

\* ------------------------------------------------------------ lazy logger
\* Three threads use a LazyLogger, each for up to MaxAccess attribute accesses.
InitLazy == \E c \in Configs : c.flush_interval = 0 /\ c.max_buffer = 0 /\ InitWith(c)

NextLazy == \E t \in LazyUsers : LazyStep(t)

SpecLazy == InitLazy /\ [][NextLazy]_vars

\* ------------------------------------------------------------ the record builder
\* The arguments of set_trace_id: None, the empty string, a trace id.
TraceArgs == {PyNone, "", "abc123"}

\* The main thread sets its ambient trace id and logs with any keyword
\* arguments; the worker thread flushes; no background flusher.
InitRecord == \E c \in Configs : c.flush_interval = 0 /\ InitWith(c)

NextRecord ==
    \/ \E t \in {Main} :
        \/ \E v \in TraceArgs : SetTraceId(t, v)
        \/ CallLogKw(t) \/ LogAcquire(t) \/ LogAppend(t) \/ FlushStep(t)
    \/ \E t \in {Worker} : CallFlush(t) \/ FlushStep(t)

SpecRecord == InitRecord /\ [][NextRecord]_vars

\* ------------------------------------------------------------ requests
\* A worker thread of a web application: between and inside requests it sets
\* the ambient trace id and logs; the other thread flushes.
NextWeb ==
    \/ \E t \in {Main} :
        \/ RequestEnter(t) \/ RequestExit(t)
        \/ \E v \in TraceArgs : SetTraceId(t, v)
        \/ CallLog(t) \/ LogAcquire(t) \/ LogAppend(t) \/ FlushStep(t)
    \/ \E t \in {Worker} : CallFlush(t) \/ FlushStep(t)

SpecWeb == InitRecord /\ [][NextWeb]_vars

\* ------------------------------------------------------------ claims: helpers
\* The positions of record r in sequence s.
Occ(s, r) == Cardinality({i \in DOMAIN s : s[i] = r})

\* A batch that flush() has swapped out and not yet handed to the writer.
InFlight(a) == pc[a] = "fl_write"

\* The number of places record r is in: the buffer, the swapped-out batches on
\* their way to the writer, the batches handed to the writer.
Places(r) ==
    Occ(lg.buffer, r)
    + Cardinality({x \in Actors \X (1..MaxRecords) :
                     InFlight(x[1]) /\ x[2] \in DOMAIN batch[x[1]] /\ batch[x[1]][x[2]] = r})
    + Cardinality({x \in (1..Len(written)) \X (1..MaxRecords) :
                     x[2] \in DOMAIN written[x[1]] /\ written[x[1]][x[2]] = r})

\* Records are numbered in append order: s is in append order.
Ascending(s) == \A i, j \in DOMAIN s : i < j => s[i] < s[j]

InFlightRecords == UNION {Range(batch[a]) : a \in {x \in Actors : InFlight(x)}}

\* The step in which actor a's flush() call ends (returns or raises).
FlushEnds(a) == pc[a] \in {"fl_cs", "fl_writing"} /\ pc'[a] \notin {"fl_cs", "fl_writing", "fl_write"}

\* ------------------------------------------------------------ C1
\* C1, as stated: when a flush() call returns, every record appended before
\* that moment is in a flushed batch (here even counting a batch that a concurrent
\* flush() has swapped out and has yet to hand to the writer).
C1_AppendedBeforeReturnIsFlushed ==
    [][\A a \in Actors : FlushEnds(a) =>
         \A r \in 1..n_appended : r \in WrittenRecords' \cup InFlightRecords']_vars

\* C1, amended: every appended record is at all times in exactly one place (the
\* buffer, one swapped-out batch on its way to the writer, or one batch handed to
\* the writer), so no record is in two batches and none is lost; the buffer and
\* every batch are in append order; and when a flush() call ends, every record
\* appended before that call took the buffer under the lock is out of the buffer,
\* in a batch handed to the writer or swapped out by a concurrent flush().
C1_ExactlyOneBatch ==
    [][/\ \A r \in 1..n_appended' : Places(r)' = 1
       /\ Ascending(lg.buffer')
       /\ \A i \in 1..Len(written') : written'[i] # <<>> /\ Ascending(written'[i])
       /\ \A a \in Actors : FlushEnds(a) =>
             LET mark == IF pc[a] = "fl_cs" THEN n_appended ELSE batch[a][Len(batch[a])]
             IN \A r \in 1..mark : r \in WrittenRecords' \cup InFlightRecords'
      ]_vars

\* Two flush() calls are inside the writer at once, each with a batch of its own.
C1_Witness ==
    \E a, b \in Actors : a # b /\ pc[a] = "fl_writing" /\ pc[b] = "fl_writing"
                          /\ batch[a] # <<>> /\ batch[b] # <<>>

\* ------------------------------------------------------------ C2
\* C2: the buffer lock is never held by an actor that is inside a writer call
\* (or on its way into one): whoever holds the lock is in the critical section
\* of _log or of flush, so an append can take the lock during a write.
C2_NoLockDuringWrite ==
    /\ \A a \in Actors : pc[a] \in {"fl_write", "fl_writing"} => lg.lock # a
    /\ lg.lock # None => pc[lg.lock] \in {"log_cs", "fl_cs"}

\* One actor is inside the writer while another holds the lock to append.
C2_Witness ==
    \E a \in Actors, t \in Threads : pc[a] = "fl_writing" /\ lg.lock = t /\ pc[t] = "log_cs"

\* ------------------------------------------------------------ C3
\* C3: no log() call ever ends by raising to the application.
C3_LogNeverRaises ==
    \A t \in Threads : ~(result[t].op = "log" /\ result[t].res = "raise")

CloseEnds(t) == op[t] = "close" /\ pc[t] # "idle" /\ pc'[t] = "idle"

HandlerStuck == pc[Sig] = "fl_acquire" /\ lg.lock = Main

\* C6: a signal delivered at any point of the main thread's execution is
\* handled to the end: the cleanup never waits for a lock that the interrupted
\* frame holds, and once the process has exited its exit code is 0 and every
\* record that was in the buffer when the signal came has been handed to the
\* writer.
C6_SignalFlushesAndExits ==
    /\ ~HandlerStuck
    /\ os.exit_code # Running =>
          os.exit_code = 0 /\ Range(os.at_signal) \subseteq WrittenRecords

\* ------------------------------------------------------------ C8
\* C8: at most one flusher thread of the logger is alive at any time.
C8_OneLiveFlusher == Cardinality({f \in Flushers : IsAlive(f)}) <= 1

\* ------------------------------------------------------------ C7
\* A log() call that has not yet appended its record.
LogPending(t) ==
    op[t] = "log" /\ pc[t] \in {"ens_flusher", "start_event", "start_thread",
                                 "log_acquire", "log_cs"}

\* C7: in a process created by fork (flush interval > 0, logger not closed), the
\* record of every log() call is eventually handed to the writer (as long as
\* the process does not fork again).
C7_NoLossAcrossFork ==
    \A k \in 0..(MaxRecords - 1), p \in 2..(MaxForks + 1) :
        (os.pid = p /\ ~lg.closed /\ LogPending(Main) /\ n_appended = k)
            ~> (k + 1 \in WrittenRecords \/ os.pid # p)

\* ------------------------------------------------------------ C9
\* A write() call of actor a is running.
InDbWrite(a) == pc[a] \in {"db_call", "db_on_error", "db_handle"}

\* C9: every invocation of the batch function gets the batch that write() got;
\* there are never more than retries + 1 invocations and the terminal policy is
\* never applied twice; the policy is applied only after retries + 1 failed
\* invocations; a write() that has ended with every invocation failed made
\* exactly retries + 1 invocations and applied the policy exactly once; and
\* every write() call ends.
C9_RetriesThenPolicyOnce ==
    /\ [](\A a \in Actors :
            LET w == dbw[a] IN
            /\ \A i \in 1..Len(w.calls) : w.calls[i] = w.records
            /\ Len(w.calls) <= cfg.db_retries + 1
            /\ w.policy <= 1
            /\ w.policy = 1 => w.fails = cfg.db_retries + 1
            /\ (w.done /\ w.fails = Len(w.calls)) =>
                  Len(w.calls) = cfg.db_retries + 1 /\ w.policy = 1)
    /\ (InDbWrite(Main) ~> ~InDbWrite(Main))

\* A write() with retries >= 1 has ended after its batch function failed every
\* time: retries + 1 invocations with a batch of two records.
C9_Witness ==
    LET w == dbw[Main] IN
    /\ w.done /\ cfg.db_retries >= 1
    /\ w.fails = Len(w.calls) /\ Len(w.calls) = cfg.db_retries + 1
    /\ Len(w.records) = 2 /\ pc[Main] = "idle"

\* ------------------------------------------------------------ C10
\* C10: when _handle_error ends inside an explicit flush() call, the error at
\* hand is that of the last invocation and the batch is dropped (the buffer is as
\* it was, flush()'s batch is gone); under "raise" flush() raises that error
\* and nothing is written to stderr; under "stderr" flush() returns normally
\* after one write to stderr; under "silent" it returns normally and nothing is
\* written.
C10_TerminalPolicy ==
    [][\A t \in Threads :
         (pc[t] = "db_handle" /\ pc'[t] # "db_handle" /\ op[t] = "flush") =>
            /\ dbw[t].last_exc = Len(dbw[t].calls)
            /\ lg.buffer' = lg.buffer /\ batch'[t] = <<>>
            /\ pc'[t] = "idle"
            /\ CASE cfg.db_error_mode = "raise" ->
                       /\ result'[t] = [op |-> "flush", res |-> "raise"]
                       /\ dbw'[t].raised = dbw[t].last_exc /\ dbw'[t].stderr = 0
                  [] cfg.db_error_mode = "stderr" ->
                       /\ result'[t] = [op |-> "flush", res |-> "ok"]
                       /\ dbw'[t].raised = 0 /\ dbw'[t].stderr = 1
                  [] cfg.db_error_mode = "silent" ->
                       /\ result'[t] = [op |-> "flush", res |-> "ok"]
                       /\ dbw'[t].raised = 0 /\ dbw'[t].stderr = 0
      ]_vars

\* An explicit flush() has raised the error of the third invocation.
C10_Witness ==
    /\ result[Main] = [op |-> "flush", res |-> "raise"] /\ pc[Main] = "idle"
    /\ dbw[Main].done /\ dbw[Main].raised = 3 /\ Len(dbw[Main].calls) = 3

\* ------------------------------------------------------------ C11
\* The step in which thread t's log() call leaves its critical section.
LogAppends(t) == pc[t] = "log_cs" /\ pc'[t] # "log_cs"

\* All log() calls have returned and no flush is under way.
NoLogRunning ==
    /\ \A t \in Threads : pc[t] = "idle"
    /\ \A f \in Flushers : pc[f] \in {"unborn", "loop", "wait", "dead"}

\* C11, as stated: a log() call that leaves the buffer at length >= M > 0 goes on
\* to flush(), with M = 0 no log() call ever flushes, and with M = 2 two log()
\* calls without an explicit flush end with exactly one writer call, whose batch
\* is the two records in call order.
C11_TwoLogsOneBatch ==
    [][/\ \A t \in Threads : LogAppends(t) =>
             IF cfg.max_buffer > 0 /\ Len(lg.buffer') >= cfg.max_buffer
             THEN pc'[t] = "fl_acquire" /\ op'[t] = "log"
             ELSE pc'[t] = "idle"
       /\ (cfg.max_buffer = 2 /\ n_appended' = 2 /\ NoLogRunning') =>
             written' = << <<1, 2>> >>
      ]_vars

\* C11, amended: a log() call that leaves the buffer at length >= M > 0 goes on
\* to flush() in the same call; with M = 0 a log() call returns right after its
\* append and never reaches flush() or the writer; and with M = 2 and no
\* background flusher (no tick can take the first record before the second is
\* appended), two log() calls without an explicit flush end with exactly one
\* writer call, whose batch is the two records in call order.
C11_SizeTriggersFlush ==
    [][/\ \A t \in Threads : LogAppends(t) =>
             IF cfg.max_buffer > 0 /\ Len(lg.buffer') >= cfg.max_buffer
             THEN pc'[t] = "fl_acquire" /\ op'[t] = "log"
             ELSE pc'[t] = "idle" /\ result'[t] = [op |-> "log", res |-> "ok"]
       /\ cfg.max_buffer = 0 =>
             /\ \A t \in Threads : pc'[t] \notin {"fl_acquire", "fl_cs", "fl_write", "fl_writing"}
             /\ ~IntervalOn => written' = <<>>
       /\ (cfg.max_buffer = 2 /\ ~IntervalOn /\ n_appended' = 2 /\ NoLogRunning') =>
             written' = << <<1, 2>> >>
      ]_vars

\* Without a flusher and with M = 2, two log() calls have returned and the
\* writer got one batch of two.
C11_Witness ==
    /\ cfg.max_buffer = 2 /\ ~IntervalOn /\ n_appended = 2 /\ NoLogRunning
    /\ written = << <<1, 2>> >> /\ lg.buffer = <<>>

\* ------------------------------------------------------------ C12
\* The step in which actor a's flush() finds the buffer empty.
FlushFindsEmpty(a) == pc[a] = "fl_cs" /\ lg.buffer = <<>> /\ pc'[a] # "fl_cs"

\* C12: a flush() that finds the buffer empty, whoever called it (an explicit
\* call, the size trigger of log(), a tick, close()), makes no writer call and
\* ends at once without raising, and it leaves the logger as it was before it
\* took the lock: the buffer empty, the lock free, every other field and every
\* batch untouched.
C12_EmptyFlushIsNoOp ==
    [][\A a \in Actors : FlushFindsEmpty(a) =>
         /\ written' = written
         /\ lg' = [lg EXCEPT !.lock = None]
         /\ batch' = batch /\ set_events' = set_events /\ n_appended' = n_appended
         /\ a \in Threads => pc'[a] = "idle" /\ result'[a] = [op |-> op[a], res |-> "ok"]
         /\ a \in Flushers => pc'[a] = "loop"
      ]_vars

\* An explicit flush() and a close() have returned on a logger that never got
\* a record, and nothing was written.
C12_Witness ==
    /\ result[Main] = [op |-> "flush", res |-> "ok"] /\ pc[Main] = "idle"
    /\ result[Worker] = [op |-> "close", res |-> "ok"] /\ pc[Worker] = "idle"
    /\ n_appended = 0 /\ written = <<>>

\* ------------------------------------------------------------ C13
\* C13: the records of a single caller reach the writer in the order they
\* were appended: every batch is in append order, and every record of an earlier
\* writer call was appended before every record of a later one.
C13_OutputInAppendOrder ==
    /\ \A i \in 1..Len(written) : Ascending(written[i])
    /\ \A i, j \in 1..Len(written) :
         i < j => \A r \in Range(written[i]), s \in Range(written[j]) : r < s

\* ------------------------------------------------------------ C14
\* Arguments the constructor is to reject: an unsupported mode, mode "db"
\* without a batch function, an unsupported policy name.
BadArgs(c) ==
    \/ c.mode \notin {"file", "db"}
    \/ c.mode = "db" /\ c.db_writer = "None"
    \/ c.db_error_mode \notin {"silent", "raise", "stderr"}

\* C14: the constructor raises exactly for the arguments it is to reject,
\* whatever the other arguments are, and no log() or flush() call on a
\* constructed logger ends with a configuration error.
C14_ConstructionFailsFast ==
    /\ pc[Main] # "new" => (pc[Main] = "failed" <=> BadArgs(cfg))
    /\ result[Main].op \in {"log", "flush"} => result[Main].res # "ValueError"

\* ------------------------------------------------------------ C15
\* C15: with a flush interval and no close(), every record in the buffer is
\* eventually handed to the writer although nobody calls flush(); and without
\* a size threshold no log() call ever flushes, so every writer call is a
\* tick of the flusher.
C15_TickFlushesEveryRecord ==
    /\ [](cfg.max_buffer = 0 =>
            \A t \in Threads : pc[t] \notin {"fl_acquire", "fl_cs", "fl_write", "fl_writing"})
    /\ \A r \in 1..MaxRecords :
         (IntervalOn /\ r \in Range(lg.buffer)) ~> (r \in WrittenRecords)

\* Without a size threshold, two records have been written by ticks, in two
\* batches.
C15_Witness ==
    /\ cfg.max_buffer = 0 /\ IntervalOn /\ ~lg.closed
    /\ written = << <<1>>, <<2>> >>

\* ------------------------------------------------------------ C16
\* The last tick of flusher f ended with an error of the writer.
TickRaised(f) == result[f] = [op |-> "tick", res |-> "raise"]

\* C16: a tick in which the writer raises (the file writer, or the db writer
\* under "raise") leaves the flusher alive, at the top of its loop, and the
\* flusher goes on to wait for the next tick; and every record that is in the
\* buffer when a tick has raised is eventually handed to the writer by a
\* later tick.
C16_TickErrorIsSwallowed ==
    /\ [](\A f \in Flushers : TickRaised(f) => IsAlive(f) /\ pc[f] = "loop")
    /\ [][\A f \in Flushers : (TickRaised(f) /\ pc'[f] # pc[f]) => pc'[f] = "wait"]_vars
    /\ \A r \in 1..MaxRecords :
         ((\E f \in Flushers : TickRaised(f)) /\ r \in Range(lg.buffer))
            ~> (r \in WrittenRecords)

\* Without a size threshold, the tick that wrote the first record has raised
\* while the second record, appended during that write, is in the buffer.
C16_Witness ==
    /\ cfg.max_buffer = 0
    /\ written = << <<1>> >> /\ lg.buffer = <<2>>
    /\ \E f \in Flushers : TickRaised(f) /\ IsAlive(f)

\* ------------------------------------------------------------ C17
\* Whether register_exit_hooks registered something for a trigger.
Registered(trigger) ==
    IF trigger = "signal" THEN os.enable_signals ELSE os.enable_atexit

\* The triggers for which _cleanup has been called, in call order.
CleanupTriggers == [i \in 1..Len(os.cleanups) |-> os.cleanups[i].trigger]

\* C17: _cleanup is called once for each trigger that fired and is registered,
\* and for no other; it calls close() when the logger has one (the logger is
\* closed from then on) and flush() otherwise (the logger is never closed); an
\* error of that call never leaves _cleanup; a process that exits after its
\* signal handler ran has exit code 0, whether or not the cleanup failed, and a
\* cleanup at normal exit leaves the program's own exit status alone.
C17_CleanupPerTrigger ==
    /\ CleanupTriggers = SelectSeq(os.fired, Registered)
    /\ \A i \in 1..Len(os.cleanups) :
          os.cleanups[i].method = (IF os.has_close THEN "close" ELSE "flush")
    /\ lg.closed = (os.has_close /\ os.cleanups # <<>>)
    /\ result[Sig].res # "raise"
    /\ (os.exit_code # Running /\ "signal" \in Range(CleanupTriggers)) => os.exit_code = 0
    /\ (os.exit_code # Running /\ "signal" \notin Range(os.fired)) => os.exit_code = os.status

\* The handler's cleanup called flush() on a logger without close(), the
\* writer raised, and the process has exited with code 0.
C17_Witness ==
    /\ ~os.has_close /\ ~os.enable_atexit
    /\ os.cleanups = <<[trigger |-> "signal", method |-> "flush"]>>
    /\ result[Sig] = [op |-> "cleanup", res |-> "swallowed"]
    /\ os.exit_code = 0

\* ------------------------------------------------------------ C18
\* C18: for every record built by log(), whatever was passed as `exc` (nothing,
\* None or an exception): its extra, if any, has no key `exc`, and it has an
\* exception field exactly when an exception (not None) was passed as `exc`.
C18_ExtraNeverHoldsExc ==
    \A i \in 1..Len(recs) :
        LET r == recs[i].record
            kw == recs[i].kwargs
        IN /\ "extra" \in DOMAIN r => "exc" \notin DOMAIN r["extra"]
           /\ ("exception" \in DOMAIN r) <=> ("exc" \in DOMAIN kw /\ kw["exc"] # PyNone)

\* ------------------------------------------------------------ C19
\* C19 as stated: a record has a trace_id field exactly when the ambient trace
\* id was set (was not None) when log() was called, and the field is that value.
C19_TraceIdIffSet ==
    \A i \in 1..Len(recs) :
        LET r == recs[i].record IN
            /\ ("trace_id" \in DOMAIN r) <=> (recs[i].trace_id # PyNone)
            /\ "trace_id" \in DOMAIN r => r["trace_id"] = recs[i].trace_id

\* C19 amended: a record has a trace_id field exactly when the ambient trace
\* id was a non-empty string (neither None nor "") when log() was called; the
\* field is the value read by that call, and it stays that value in the buffer
\* and in the batch handed to the writer, whatever the ambient trace id is set
\* to afterwards.
C19_TraceIdIffNonEmpty ==
    /\ [](\A i \in 1..Len(recs) :
            LET r == recs[i].record IN
                /\ ("trace_id" \in DOMAIN r) <=> (recs[i].trace_id \notin {PyNone, ""})
                /\ "trace_id" \in DOMAIN r => r["trace_id"] = recs[i].trace_id)
    /\ [][\A i \in 1..Len(recs) : recs'[i] = recs[i]]_vars

\* A record logged under "abc123" has been handed to the writer with that
\* field while no thread has that ambient trace id any more, and a record
\* logged under the empty trace id has no field.
C19_Witness ==
    /\ \E i \in WrittenRecords :
          /\ "trace_id" \in DOMAIN recs[i].record
          /\ recs[i].record["trace_id"] = "abc123"
          /\ \A t \in Threads : ctx[t] # "abc123"
    /\ \E i \in 1..Len(recs) :
          recs[i].trace_id = "" /\ "trace_id" \notin DOMAIN recs[i].record

\* ------------------------------------------------------------ C20
\* C20: the factory is not called before a thread has begun an attribute
\* access, it is never called a second time, however the threads' first
\* accesses interleave, and every access that has ended was proxied to the one
\* instance the factory returned.
C20_FactoryCalledOnce ==
    /\ lazy.calls <= 1
    /\ lazy.calls = 1 => \E t \in LazyUsers : lazy.n[t] >= 1
    /\ lazy.logger = lazy.calls
    /\ \A t \in LazyUsers :
          /\ lazy.got[t] \in {0, 1}
          /\ (lazy.n[t] >= 1 /\ lazy.pc[t] = "idle") => lazy.calls = 1 /\ lazy.got[t] = 1
          /\ lazy.got[t] = 0 => (lazy.n[t] = 0 \/ (lazy.n[t] = 1 /\ lazy.pc[t] # "idle"))

\* Two threads found _logger None in their first access; one has called the
\* factory and finished, the other now holds the lock and finds the logger.
C20_Witness ==
    \E t, u \in LazyUsers :
        /\ t # u
        /\ lazy.pc[t] = "lz_inner" /\ lazy.lock = t /\ lazy.n[t] = 1
        /\ lazy.logger = 1 /\ lazy.calls = 1
        /\ lazy.got[u] = 1 /\ lazy.n[u] = 1 /\ lazy.pc[u] = "idle"

\* ------------------------------------------------------------ C21
\* C21: when a request ends, the ambient trace id of the thread that served it
\* is the value it had when the request began, also when that value was None.
C21_RequestRestoresTraceId ==
    [][\A t \in Threads :
         (req[t].mw # "none" /\ req'[t].mw = "none") => ctx'[t] = req[t].previous]_vars

\* ------------------------------------------------------------ C22
\* C22: the error callback is called at most once per write(), only when every
\* one of the retries + 1 invocations has failed, with the batch and the error
\* of the last invocation, and before the terminal policy is applied; whether
\* the callback returns or raises, the policy is then applied exactly once and
\* as configured: under "raise" the error raised is the backend's last error,
\* under "stderr" there is one write to stderr, under "silent" neither.
C22_CallbackOnceThenPolicy ==
    /\ [](\A a \in Actors :
            LET w == dbw[a] IN
            /\ Len(w.on_error) <= 1
            /\ w.on_error # <<>> =>
                  /\ cfg.db_on_error # "none"
                  /\ w.fails = cfg.db_retries + 1 /\ w.last_exc = Len(w.calls)
                  /\ w.on_error[1] = <<w.records, w.last_exc>>
            /\ (w.policy = 1 /\ cfg.db_on_error # "none") => Len(w.on_error) = 1
            /\ (w.done /\ w.fails = cfg.db_retries + 1) =>
                  /\ w.policy = 1
                  /\ w.raised = (IF cfg.db_error_mode = "raise" THEN w.last_exc ELSE 0)
                  /\ w.stderr = (IF cfg.db_error_mode = "stderr" THEN 1 ELSE 0))
    /\ [][\A a \in Actors :
            Len(dbw'[a].on_error) > Len(dbw[a].on_error) =>
                dbw[a].policy = 0 /\ dbw'[a].policy = 0 /\ pc'[a] = "db_handle"]_vars

\* With retries, a callback that raises and the policy "raise": flush() has
\* raised the backend's last error after one call of the callback.
C22_Witness ==
    LET w == dbw[Main] IN
    /\ cfg.db_on_error = "raises" /\ cfg.db_error_mode = "raise" /\ cfg.db_retries >= 1
    /\ w.done /\ Len(w.on_error) = 1 /\ w.policy = 1
    /\ w.raised = cfg.db_retries + 1
    /\ pc[Main] = "idle" /\ result[Main] = [op |-> "flush", res |-> "raise"]

\* ------------------------------------------------------------ C23
\* A write() that ended with a successful invocation.
Succeeded(w) == w.done /\ w.fails < Len(w.calls)

\* C23: a write() whose invocation k succeeds ends there: it has made exactly
\* the k - 1 failed invocations and that one (k <= retries + 1), the callback
\* has not been called, the policy has not been applied, nothing was raised or
\* written to stderr, and the call that made it returns normally.
C23_SuccessReturnsAtOnce ==
    /\ [](\A a \in Actors :
            LET w == dbw[a] IN
            Succeeded(w) =>
                /\ Len(w.calls) = w.fails + 1 /\ Len(w.calls) <= cfg.db_retries + 1
                /\ w.on_error = <<>> /\ w.policy = 0 /\ w.raised = 0 /\ w.stderr = 0
                /\ ~InDbWrite(a)
                /\ (a \in Threads /\ pc[a] = "idle") => result[a].res = "ok")
    /\ [][\A a \in Actors :
            (pc[a] = "db_call" /\ dbw'[a].done) =>
                /\ Len(dbw'[a].calls) = Len(dbw[a].calls) + 1
                /\ a \in Threads => pc'[a] = "idle" /\ result'[a].res = "ok"]_vars

\* With retries = 2 the third invocation succeeded after two failures.
C23_Witness ==
    LET w == dbw[Main] IN
    /\ cfg.db_retries = 2 /\ Succeeded(w)
    /\ Len(w.calls) = 3 /\ w.fails = 2 /\ Len(w.records) = 2
    /\ pc[Main] = "idle" /\ result[Main].res = "ok"

\* ------------------------------------------------------------ C24
\* C24: once close() has marked the logger closed, no flusher thread is
\* started any more, whatever log() calls are in progress; so when close() has
\* returned and the log() calls have ended, the flushers that are still alive
\* are none but those started before the mark.
C24_NoStartAfterClose ==
    [][lg.closed => n_flushers' = n_flushers]_vars

\* ------------------------------------------------------------ C25
\* C25: with a flush interval that is unset, zero or negative there is never a
\* flusher thread: none after construction, none started by log(), none after
\* a fork; and every writer call is made by an application thread, inside an
\* explicit flush() or close(), or inside a log() when there is a size
\* threshold.
C25_NoFlusherWithoutInterval ==
    /\ [](cfg.flush_interval <= 0 =>
            /\ n_flushers = 0 /\ lg.flusher = None
            /\ \A f \in Flushers : pc[f] = "unborn")
    /\ [][(cfg.flush_interval <= 0 /\ written' # written) =>
            \E t \in Threads :
                /\ pc[t] = "fl_write" /\ pc'[t] # "fl_write"
                /\ op[t] \in {"flush", "close"} \/ (op[t] = "log" /\ cfg.max_buffer > 0)]_vars

\* With a negative interval and no size threshold: the child of a fork has
\* logged twice and then written both records in a flush() or close().
C25_Witness ==
    /\ cfg.flush_interval = -1 /\ cfg.max_buffer = 0
    /\ os.pid = 2 /\ n_appended = 2
    /\ written = << <<1, 2>> >>
    /\ n_flushers = 0

\* ------------------------------------------------------------ C26
\* Thread t is inside a close() call, or calls or leaves it in this step, and
\* the last call it completed before was a close() as well.
InSecondClose(t) ==
    /\ result[t].op = "close"
    /\ op[t] = "close" \/ op'[t] = "close"
    /\ pc'[t] # pc[t]

\* C26: every step of a close() that the only application thread makes right
\* after a close() it has completed leaves the output and the logger as they
\* are: no writer call, the buffer empty, the logger closed, the same flusher,
\* the same stop Event, set if there is a flusher, no new thread; and the
\* call returns normally.
C26_SecondCloseIsNoOp ==
    [][\A t \in Threads : InSecondClose(t) =>
         /\ written' = written
         /\ lg.buffer = <<>> /\ lg'.buffer = <<>>
         /\ lg'.closed
         /\ lg'.flusher = lg.flusher /\ lg'.stop_event = lg.stop_event
         /\ lg.flusher # None => set_events' = set_events /\ lg.stop_event \in set_events'
         /\ n_flushers' = n_flushers /\ n_events' = n_events
         /\ pc'[t] = "idle" => result'[t] = [op |-> "close", res |-> "ok"]
      ]_vars

\* The second close() of a logger with a flusher is in its flush, after the
\* first close() wrote a batch.
C26_Witness ==
    /\ cfg.flush_interval > 0
    /\ op[Main] = "close" /\ result[Main].op = "close" /\ pc[Main] = "fl_cs"
    /\ lg.flusher # None /\ written # <<>>

\* ------------------------------------------------------------ C27
\* The step in which the writer call of actor a ends.
WriterCallEnds(a) ==
    /\ pc[a] \in {"fl_writing", "db_call", "db_on_error", "db_handle"}
    /\ pc'[a] \notin {"fl_writing", "db_call", "db_on_error", "db_handle"}

\* The flattened output: the records of all writer calls, in order.
RECURSIVE Flat(_)
Flat(batches) == IF batches = <<>> THEN <<>> ELSE Head(batches) \o Flat(Tail(batches))

\* C27: a record that has left the buffer never comes back into it, and no
\* record is handed to the writer in two writer calls; when a writer call
\* ends, however it ends (returned, raised, batch dropped under "silent" or
\* "stderr"), the buffer is as it was, it holds none of the batch's records and
\* only records appended after the swap, every record appended after the swap
\* is in the buffer or has been taken by another flush, and the batch is gone.
C27_FailedBatchIsNeverRequeued ==
    /\ [][\A r \in 1..n_appended : r \notin Range(lg.buffer) => r \notin Range(lg.buffer')]_vars
    /\ [](\A r \in 1..n_appended : Occ(Flat(written), r) <= 1)
    /\ [][\A a \in Actors : WriterCallEnds(a) =>
            LET last == batch[a][Len(batch[a])] IN
            /\ lg.buffer' = lg.buffer /\ batch'[a] = <<>>
            /\ Range(lg.buffer') \cap Range(batch[a]) = {}
            /\ \A r \in Range(lg.buffer') : r > last
            /\ \A r \in (last + 1)..n_appended :
                  r \in Range(lg.buffer') \cup WrittenRecords' \cup InFlightRecords'
         ]_vars

\* A flush() of the first record has raised while the second record, appended
\* after the swap, is in the buffer.
C27_Witness ==
    \E t \in Threads :
        /\ pc[t] = "idle" /\ result[t] = [op |-> "flush", res |-> "raise"]
        /\ written = << <<1>> >> /\ lg.buffer = <<2>>

\* ------------------------------------------------------------ C28
\* C28: in a process created by fork, a log(), flush() or close() call of the
\* thread that forked that has come to the buffer lock gets past it (as long
\* as the process does not fork again), also when another thread of the parent
\* held the lock at the fork.
C28_ChildGetsTheLock ==
    \A p \in 2..(MaxForks + 1) :
        (os.pid = p /\ pc[Main] \in {"log_acquire", "fl_acquire"})
            ~> (pc[Main] \notin {"log_acquire", "fl_acquire"} \/ os.pid # p)

\* ------------------------------------------------------------ C29
SpecTwin == InitInterval /\ [][NextTwin]_vars

\* C29: no record is handed to a writer by two processes: a record that the
\* process followed after a fork has handed to its writer is in no batch that
\* a process it was forked from has handed to a writer since the fork, and no
\* record is in the batches of two such processes.
C29_NoRecordWrittenTwice ==
    \A r \in 1..n_appended :
        /\ ~(r \in WrittenRecords /\ r \in Range(Flat(os.twin_written)))
        /\ Occ(Flat(os.twin_written), r) <= 1

\* ------------------------------------------------------------ C30
\* Thread t is inside a log() call: it has started one that has neither
\* returned nor raised.
LogRunning(t) == op[t] = "log" /\ pc[t] # "idle"

\* C30: with a max buffer size M > 0, whenever no log() call is in progress the
\* buffer holds fewer than M records (flush() calls may be under way).
C30_BufferBelowThreshold ==
    (cfg.max_buffer > 0 /\ \A t \in Threads : ~LogRunning(t))
        => Len(lg.buffer) < cfg.max_buffer

\* C30: the log() call that brought the buffer to M = 2 records has flushed
\* them, its writer has raised, and no log() call is running.
C30_Witness ==
    /\ cfg.max_buffer = 2
    /\ \A t \in Threads : ~LogRunning(t)
    /\ \E t \in Threads : result[t] = [op |-> "log", res |-> "raise"]
    /\ written = << <<1, 2>> >>
    /\ lg.buffer = <<>>

====
